---- MODULE Spec2Model ----
(***************************************************************************)
(* A model of the byte-code interpreter of jerry-core/vm/vm.c: the frame   *)
(* chain, the per-frame register file and operand/context stack, the       *)
(* pending-exception slot of the engine context and the reference counts   *)
(* of the heap cells the interpreter owns.  One action per opcode group of *)
(* vm_loop, one for the `error' label, and one per step of vm_execute.     *)
(*                                                                         *)
(* Byte-code positions are instruction indices (1-based); a branch offset  *)
(* is relative to the position of the instruction that carries it, as in   *)
(* the source (byte_code_start_p + branch_offset).                         *)
(***************************************************************************)
EXTENDS Integers, Sequences, FiniteSets, TLC

(***************************************************************************)
(* Bounds of the model.                                                    *)
(***************************************************************************)
\* number of heap cells available for objects created while running
MaxCells == 10
\* largest stop-callback frequency tried
MaxFrequency == 2
\* deepest chain of nested frames
MaxFrames == 2
\* most property names a for-in statement enumerates
MaxNames == 2

(***************************************************************************)
(* Tagged values (ecma_value_t).  Direct values carry no reference;        *)
(* pointer values name a heap cell and own one reference to it.            *)
(***************************************************************************)
Direct(name) == [t |-> "direct", v |-> name]
ECMA_VALUE_UNDEFINED == Direct("undefined")
ECMA_VALUE_NULL == Direct("null")
ECMA_VALUE_TRUE == Direct("true")
ECMA_VALUE_FALSE == Direct("false")
ECMA_VALUE_EMPTY == Direct("empty")
ECMA_VALUE_ERROR == Direct("error")
ECMA_VALUE_UNINITIALIZED == Direct("uninitialized")
ECMA_VALUE_REGISTER_REF == Direct("register_ref")
ECMA_VALUE_SPREAD_ELEMENT == Direct("spread_element")
ECMA_VALUE_ARRAY_HOLE == Direct("array_hole")
IntValue(n) == [t |-> "int", v |-> n]
Ptr(c) == [t |-> "ptr", v |-> c]

ECMA_IS_VALUE_ERROR(v) == v = ECMA_VALUE_ERROR
IsPtr(v) == v.t = "ptr"
IsCtx(v) == v.t = "ctx"
ecma_is_value_integer_number(v) == v.t = "int"
ecma_is_value_float_number(v) == v.t = "float"
ecma_is_value_number(v) == v.t \in {"int", "float"}

(***************************************************************************)
(* Heap cells and their reference counts.  Cells 1..4 are held by the      *)
(* literal tables and the global object for the whole run: a string        *)
(* constant, a plain object, a native (external) function and the global   *)
(* lexical environment.                                                    *)
(***************************************************************************)
Cells == 1..MaxCells
StaticKinds == <<"string", "object", "native", "lexenv">>
StaticCells == 1..Len(StaticKinds)
FreeCell ==
  [refs |-> 0, kind |-> "free", code |-> 0, names |-> {}, frame |-> <<>>,
   items |-> <<>>]
InitHeap ==
  [c \in Cells |->
     IF c \in StaticCells
     THEN [refs |-> 1, kind |-> StaticKinds[c], code |-> 0, names |-> {},
           frame |-> <<>>, items |-> <<>>]
     ELSE FreeCell]

\* strings are heap cells or direct values; every other cell is an object
ecma_is_value_object(h, v) == IsPtr(v) /\ h[v.v].kind # "string"
ecma_is_value_string(h, v) ==
  \/ IsPtr(v) /\ h[v.v].kind = "string"
  \/ v.t \in {"name", "magic", "ident"}
\* a string or a symbol (there are no symbols among the values here)
ecma_is_value_prop_name(h, v) == ecma_is_value_string(h, v)
ecma_is_lexical_environment(h, v) == IsPtr(v) /\ h[v.v].kind = "lexenv"

\* ecma_copy_value / ecma_fast_copy_value / ecma_ref_object
CopyRef(h, v) ==
  IF IsPtr(v) THEN [h EXCEPT ![v.v].refs = @ + 1] ELSE h

RECURSIVE CopyAll(_, _)
CopyAll(h, vs) ==
  IF vs = <<>> THEN h ELSE CopyAll(CopyRef(h, Head(vs)), Tail(vs))

\* the names of a for-in collection from the cursor on
RemainingNames(coll, index) == SubSeq(coll.v, index + 1, Len(coll.v))

\* the values a stack owns; a for-in collection owns its names from the
\* cursor (the slot below it) on
RECURSIVE StackValues(_, _)
StackValues(stack, i) ==
  IF i > Len(stack) THEN <<>>
  ELSE (IF stack[i].t = "coll" THEN RemainingNames(stack[i], stack[i - 1].v)
        ELSE IF stack[i].t = "args" THEN stack[i].v
        ELSE <<stack[i]>>) \o StackValues(stack, i + 1)

FrameValues(f) ==
  f.regs \o StackValues(f.stack, 1) \o <<f.block_result>>
  \o [i \in 1..Len(f.lex_env) |-> f.lex_env[i].obj]

\* the values a cell owns: the items of an array, and what the frame saved
\* in a suspended executable object holds
SavedValues(cell) ==
  cell.items \o (IF cell.frame = <<>> THEN <<>> ELSE FrameValues(cell.frame[1]))

\* ecma_free_value / ecma_fast_free_value / ecma_deref_object, for each
\* value of vs in turn: a cell whose last reference goes is reclaimed, and
\* with it what its saved frame holds
RECURSIVE FreeAll(_, _)
FreeAll(h, vs) ==
  IF vs = <<>> THEN h
  ELSE LET v == Head(vs)
           last == IsPtr(v) /\ h[v.v].refs = 1
       IN FreeAll(IF ~IsPtr(v) THEN h
                  ELSE IF last THEN [h EXCEPT ![v.v] = FreeCell]
                  ELSE [h EXCEPT ![v.v].refs = @ - 1],
                  (IF last THEN SavedValues(h[v.v]) ELSE <<>>) \o Tail(vs))

FreeRef(h, v) == FreeAll(h, <<v>>)

HasFree(h) == \E c \in Cells : h[c].kind = "free" /\ h[c].refs = 0
NewCell(h) == CHOOSE c \in Cells :
                /\ h[c].kind = "free" /\ h[c].refs = 0
                /\ \A d \in Cells : (h[d].kind = "free" /\ h[d].refs = 0) => c <= d
\* a new cell with one reference, owned by whoever receives Ptr(NewCell(h))
Alloc(h, kind, code) ==
  [h EXCEPT ![NewCell(h)] = [refs |-> 1, kind |-> kind, code |-> code, names |-> {},
                             frame |-> <<>>, items |-> <<>>]]

\* The enumerable property names an object can have are numbered
\* 1..MaxNames, and a cell's names field says which of them it has now.
\* As a value the first name is the heap string of cell 1, the others are
\* direct strings.
\* the global lexical environment, and the string of an identifier's name
GlobalLexEnv == Ptr(4)
IdentName(name) == [t |-> "ident", v |-> name]
PropertyName(i) == IF i = 1 THEN Ptr(1) ELSE [t |-> "name", v |-> i]
NameIndex(v) == IF IsPtr(v) THEN 1 ELSE IF v.t = "name" THEN v.v ELSE 0
\* the names of the set ns from the i-th on, in enumeration order
RECURSIVE EnumerateNames(_, _)
EnumerateNames(ns, i) ==
  IF i > MaxNames THEN <<>>
  ELSE (IF i \in ns THEN <<PropertyName(i)>> ELSE <<>>) \o EnumerateNames(ns, i + 1)
\* the object the global object holds, with the property names ns
WithNames(h, ns) == [h EXCEPT ![2].names = ns]

(***************************************************************************)
(* Sizes of the context records on the frame stack, in stack slots.        *)
(***************************************************************************)
PARSER_TRY_CONTEXT_STACK_ALLOCATION == 2
PARSER_WITH_CONTEXT_STACK_ALLOCATION == 1
PARSER_BLOCK_CONTEXT_STACK_ALLOCATION == 1
PARSER_FOR_IN_CONTEXT_STACK_ALLOCATION == 4
PARSER_FOR_OF_CONTEXT_STACK_ALLOCATION == 3

\* the tag word of a context record: VM_CREATE_CONTEXT (type, end_offset)
VM_CREATE_CONTEXT(kind, end) ==
  [t |-> "ctx", kind |-> kind, end |-> end, lex |-> FALSE, close |-> FALSE]
\* VM_CREATE_CONTEXT_WITH_ENV: the same with VM_CONTEXT_HAS_LEX_ENV set
VM_CREATE_CONTEXT_WITH_ENV(kind, end) ==
  [t |-> "ctx", kind |-> kind, end |-> end, lex |-> TRUE, close |-> FALSE]
VM_CONTEXT_IS_FINALLY(kind) ==
  kind \in {"FINALLY_JUMP", "FINALLY_THROW", "FINALLY_RETURN"}
\* a raw machine word stored in a stack slot (a jump target, a for-in cursor)
Raw(n) == [t |-> "raw", v |-> n]
\* the pointer to a for-in name collection stored in a stack slot
Coll(names) == [t |-> "coll", v |-> names]
\* the pointer to a collection of spread arguments stored in a stack slot
ArgColl(values) == [t |-> "args", v |-> values]
\* what a slot holds that no opcode has written yet
STACK_GARBAGE == Direct("garbage")

(***************************************************************************)
(* Decoded instructions: the entry of vm_decode_table (operand shape,      *)
(* group, put-result disposition, backward-branch flag) together with the  *)
(* operand bytes that follow the opcode.  For the opcodes of the group     *)
(* SPREAD_ARGUMENTS, which read no operand, args tells the opcodes that    *)
(* call from the one that constructs.                                      *)
(***************************************************************************)
Ins(group, args, a, b, x, off, bwd, put) ==
  [group |-> group, args |-> args, a |-> a, b |-> b, x |-> x,
   off |-> off, bwd |-> bwd, put |-> put, len |-> 0]

CBC_PUSH_LITERAL(a) == Ins("PUSH", "LITERAL", a, 0, 0, 0, FALSE, {})
CBC_PUSH_TWO_LITERALS(a, b) == Ins("PUSH_TWO", "LITERAL_LITERAL", a, b, 0, 0, FALSE, {})
CBC_PUSH_THREE_LITERALS(a, b, c) == Ins("PUSH_THREE", "LITERAL_LITERAL", a, b, c, 0, FALSE, {})
CBC_PUSH_UNDEFINED == Ins("PUSH_UNDEFINED", "NONE", 0, 0, 0, 0, FALSE, {})
CBC_PUSH_TRUE == Ins("PUSH_TRUE", "NONE", 0, 0, 0, 0, FALSE, {})
CBC_POP == Ins("POP", "NONE", 0, 0, 0, 0, FALSE, {})
CBC_POP_BLOCK == Ins("POP_BLOCK", "NONE", 0, 0, 0, 0, FALSE, {})
CBC_EVAL == Ins("EVAL", "NONE", 0, 0, 0, 0, FALSE, {})
CBC_PUSH_PROP == Ins("PROP_GET", "STACK_STACK", 0, 0, 0, 0, FALSE, {})
CBC_ASSIGN_SET_IDENT(lit) == Ins("ASSIGN", "STACK", 0, 0, lit, 0, FALSE, {"IDENT"})
CBC_ASSIGN_SET_IDENT_PUSH_RESULT(lit) ==
  Ins("ASSIGN", "STACK", 0, 0, lit, 0, FALSE, {"IDENT", "STACK"})
CBC_ASSIGN_SET_IDENT_BLOCK(lit) ==
  Ins("ASSIGN", "STACK", 0, 0, lit, 0, FALSE, {"IDENT", "BLOCK"})
CBC_RETURN == Ins("RETURN", "STACK", 0, 0, "RETURN", 0, FALSE, {})
CBC_RETURN_WITH_BLOCK == Ins("RETURN", "NONE", 0, 0, "RETURN_WITH_BLOCK", 0, FALSE, {})
CBC_EXT_RETURN == Ins("EXT_RETURN", "STACK", 0, 0, 0, 0, FALSE, {})
CBC_RETURN_WITH_LITERAL(a) == Ins("RETURN", "LITERAL", a, 0, "RETURN_WITH_LITERAL", 0, FALSE, {})
CBC_THROW == Ins("THROW", "STACK", 0, 0, 0, 0, FALSE, {})
CBC_JUMP_FORWARD(off) == Ins("JUMP", "BRANCH", 0, 0, 0, off, FALSE, {})
CBC_JUMP_BACKWARD(off) == Ins("JUMP", "BRANCH", 0, 0, 0, off, TRUE, {})
CBC_BRANCH_IF_TRUE_BACKWARD(off) == Ins("BRANCH_IF_TRUE", "BRANCH", 0, 0, 0, off, TRUE, {})
CBC_BRANCH_IF_FALSE_FORWARD(off) == Ins("BRANCH_IF_FALSE", "BRANCH", 0, 0, 0, off, FALSE, {})
CBC_TRY_CREATE_CONTEXT(off) == Ins("TRY", "BRANCH", 0, 0, 0, off, FALSE, {})
CBC_EXT_CATCH(off) == Ins("CATCH", "BRANCH", 0, 0, 0, off, FALSE, {})
CBC_EXT_FINALLY(off) == Ins("FINALLY", "BRANCH", 0, 0, 0, off, FALSE, {})
CBC_CONTEXT_END == Ins("CONTEXT_END", "NONE", 0, 0, 0, 0, FALSE, {})
CBC_JUMP_FORWARD_EXIT_CONTEXT(off) ==
  Ins("JUMP_AND_EXIT_CONTEXT", "BRANCH", 0, 0, 0, off, FALSE, {})
CBC_EXT_WITH_CREATE_CONTEXT(off) == Ins("WITH", "BRANCH", 0, 0, 0, off, FALSE, {})
CBC_BLOCK_CREATE_CONTEXT(off) ==
  Ins("BLOCK_CREATE_CONTEXT", "BRANCH", 0, 0, "BLOCK", off, FALSE, {})
CBC_EXT_TRY_CREATE_ENV ==
  Ins("BLOCK_CREATE_CONTEXT", "NONE", 0, 0, "TRY_CREATE_ENV", 0, FALSE, {})
CBC_EXT_FOR_IN_CREATE_CONTEXT(off) ==
  Ins("FOR_IN_CREATE_CONTEXT", "BRANCH", 0, 0, 0, off, FALSE, {})
CBC_EXT_FOR_IN_GET_NEXT == Ins("FOR_IN_GET_NEXT", "NONE", 0, 0, 0, 0, FALSE, {})
CBC_EXT_BRANCH_IF_FOR_IN_HAS_NEXT(off) ==
  Ins("FOR_IN_HAS_NEXT", "BRANCH", 0, 0, 0, off, TRUE, {})
CBC_EXT_FOR_OF_CREATE_CONTEXT(off) ==
  Ins("FOR_OF_CREATE_CONTEXT", "BRANCH", 0, 0, 0, off, FALSE, {})
CBC_EXT_FOR_OF_GET_NEXT == Ins("FOR_OF_GET_NEXT", "NONE", 0, 0, 0, 0, FALSE, {})
CBC_EXT_BRANCH_IF_FOR_OF_HAS_NEXT(off) ==
  Ins("FOR_OF_HAS_NEXT", "BRANCH", 0, 0, 0, off, TRUE, {})
\* CBC_CALL0 .. : the argument count is part of the opcode family
\* (field a is opcode - CBC_CALL: the six forms of a call follow each other)
CBC_CALL(argc) == Ins("CALL", "NONE", 0, 0, argc, 0, FALSE, {})
CBC_CALL_PUSH_RESULT(argc) == Ins("CALL", "NONE", 1, 0, argc, 0, FALSE, {"STACK"})
CBC_CALL_BLOCK(argc) == Ins("CALL", "NONE", 2, 0, argc, 0, FALSE, {"BLOCK"})
CBC_CALL_PROP(argc) == Ins("CALL", "NONE", 3, 0, argc, 0, FALSE, {})
CBC_CALL_PROP_PUSH_RESULT(argc) == Ins("CALL", "NONE", 4, 0, argc, 0, FALSE, {"STACK"})
CBC_CALL_PROP_BLOCK(argc) == Ins("CALL", "NONE", 5, 0, argc, 0, FALSE, {"BLOCK"})
CBC_ASSIGN == Ins("ASSIGN", "STACK", 0, 0, 0, 0, FALSE, {"REFERENCE"})
CBC_ASSIGN_PUSH_RESULT ==
  Ins("ASSIGN", "STACK", 0, 0, 0, 0, FALSE, {"REFERENCE", "STACK"})
CBC_ASSIGN_BLOCK ==
  Ins("ASSIGN", "STACK", 0, 0, 0, 0, FALSE, {"REFERENCE", "BLOCK"})
CBC_PUSH_IDENT_REFERENCE(lit) ==
  Ins("IDENT_REFERENCE", "NONE", 0, 0, lit, 0, FALSE, {})
CBC_NEW(argc) == Ins("NEW", "NONE", 0, 0, argc, 0, FALSE, {"STACK"})
CBC_EXT_PUSH_SPREAD_ELEMENT ==
  Ins("PUSH_SPREAD_ELEMENT", "NONE", 0, 0, 0, 0, FALSE, {})
CBC_EXT_SPREAD_CALL(argc) ==
  Ins("SPREAD_ARGUMENTS", "CALL", 0, 0, argc, 0, FALSE, {})
CBC_EXT_SPREAD_CALL_PUSH_RESULT(argc) ==
  Ins("SPREAD_ARGUMENTS", "CALL", 0, 0, argc, 0, FALSE, {"STACK"})
CBC_EXT_SPREAD_CALL_BLOCK(argc) ==
  Ins("SPREAD_ARGUMENTS", "CALL", 0, 0, argc, 0, FALSE, {"BLOCK"})
CBC_EXT_SPREAD_NEW(argc) ==
  Ins("SPREAD_ARGUMENTS", "NEW", 0, 0, argc, 0, FALSE, {"STACK"})
CBC_EXT_CREATE_GENERATOR == Ins("CREATE_GENERATOR", "NONE", 0, 0, 0, 0, FALSE, {})
CBC_EXT_YIELD == Ins("YIELD", "NONE", 0, 0, 0, 0, FALSE, {})
CBC_EXT_ERROR == Ins("ERROR", "NONE", 0, 0, 0, 0, FALSE, {})
CBC_TYPEOF == Ins("TYPEOF", "STACK", 0, 0, 0, 0, FALSE, {})
CBC_ADD == Ins("ADD", "STACK_STACK", 0, 0, 0, 0, FALSE, {})
CBC_SUBTRACT == Ins("SUB", "STACK_STACK", 0, 0, 0, 0, FALSE, {})
CBC_MULTIPLY == Ins("MUL", "STACK_STACK", 0, 0, 0, 0, FALSE, {})
CBC_MODULO == Ins("MOD", "STACK_STACK", 0, 0, 0, 0, FALSE, {})
CBC_LESS == Ins("LESS", "STACK_STACK", 0, 0, 0, 0, FALSE, {})
\* CBC_BRANCH_IF_TRUE_BACKWARD, _2 and _3 with the bytes of the offset in
\* the len positions after the opcode, and one such byte
CBC_BRANCH_IF_TRUE_BACKWARD_N(len) ==
  [Ins("BRANCH_IF_TRUE", "BRANCH", 0, 0, 0, 0, TRUE, {}) EXCEPT !.len = len]
OffsetByte(byte) == Ins("OFFSET", "NONE", 0, 0, byte, 0, FALSE, {})
CBC_BIT_OR == Ins("BIT_OR", "STACK_STACK", 0, 0, 0, 0, FALSE, {})
CBC_BIT_XOR == Ins("BIT_XOR", "STACK_STACK", 0, 0, 0, 0, FALSE, {})
CBC_BIT_AND == Ins("BIT_AND", "STACK_STACK", 0, 0, 0, 0, FALSE, {})
CBC_LEFT_SHIFT == Ins("LEFT_SHIFT", "STACK_STACK", 0, 0, 0, 0, FALSE, {})
CBC_RIGHT_SHIFT == Ins("RIGHT_SHIFT", "STACK_STACK", 0, 0, 0, 0, FALSE, {})
CBC_UNS_RIGHT_SHIFT == Ins("UNS_RIGHT_SHIFT", "STACK_STACK", 0, 0, 0, 0, FALSE, {})
CBC_BIT_NOT == Ins("BIT_NOT", "STACK", 0, 0, 0, 0, FALSE, {})
CBC_TYPEOF_IDENT(lit) == Ins("TYPEOF_IDENT", "NONE", 0, 0, lit, 0, FALSE, {})
CBC_EXT_SUPER_CALL(argc) == Ins("SUPER_CALL", "NONE", 0, 0, argc, 0, FALSE, {})
CBC_EXT_SUPER_CALL_PUSH_RESULT(argc) ==
  Ins("SUPER_CALL", "NONE", 0, 0, argc, 0, FALSE, {"STACK"})
CBC_EXT_SUPER_CALL_BLOCK(argc) ==
  Ins("SUPER_CALL", "NONE", 0, 0, argc, 0, FALSE, {"BLOCK"})
\* CBC_UNARY_LVALUE_OPERATION: the property form, with push-result and
\* block variants, and the identifier form with the same variants
UnaryLvalueProp(group, put) ==
  Ins("PROP_" \o group, "STACK_STACK", 0, 0, 0, 0, FALSE, {"REFERENCE"} \cup put)
UnaryLvalueIdent(group, lit, put) ==
  Ins(group, "LITERAL", lit, 0, lit, 0, FALSE, {"IDENT"} \cup put)

(***************************************************************************)
(* Compiled code.  Literal indexes are 1-based here: 1..register_end are   *)
(* registers, up to ident_end identifiers, up to const_literal_end         *)
(* constants, and the rest are literal objects (functions, regexps).       *)
(***************************************************************************)
LitReg == [k |-> "reg"]
LitIdent(name) == [k |-> "ident", name |-> name]
LitConst(v) == [k |-> "const", v |-> v]
LitFunc(unit) == [k |-> "func", unit |-> unit]
LitRegexp == [k |-> "regexp"]

\* the literal table shared by the code units below
Literals ==
  << LitReg, LitReg,
     LitIdent("c"), LitIdent("x"), LitIdent("g"), LitIdent("f"), LitIdent("k"),
     LitIdent("u"), LitIdent("z"), LitIdent("p"),
     LitIdent("b"), LitIdent("w"),
     LitConst(Ptr(1)), LitConst(IntValue(1)),
     LitFunc("F"), LitRegexp, LitFunc("G") >>
Header ==
  [argument_end |-> 1, register_end |-> 2, ident_end |-> 12,
   const_literal_end |-> 14, literal_end |-> 17, status_flags |-> {}]
\* the indexes of that table by name
Lit ==
  [r1 |-> 1, r2 |-> 2, c |-> 3, x |-> 4, g |-> 5, f |-> 6, k |-> 7,
   u |-> 8, z |-> 9, p |-> 10, b |-> 11, w |-> 12, s |-> 13, func |-> 15,
   regexp |-> 16, gen |-> 17]

\* function A () { try { if (c) return g; x } catch (e) { if (c) throw e }
\*                 finally { if (c) return "s" } }
CodeA ==
  << CBC_TRY_CREATE_CONTEXT(7),          \* 1  -> 8
     CBC_PUSH_LITERAL(Lit.c),               \* 2
     CBC_BRANCH_IF_FALSE_FORWARD(3),     \* 3  -> 6
     CBC_PUSH_LITERAL(Lit.g),               \* 4
     CBC_RETURN,                         \* 5
     CBC_PUSH_LITERAL(Lit.x),               \* 6
     CBC_POP,                            \* 7
     CBC_EXT_CATCH(6),                   \* 8  -> 14
     CBC_ASSIGN_SET_IDENT(Lit.r1),           \* 9
     CBC_PUSH_LITERAL(Lit.c),               \* 10
     CBC_BRANCH_IF_FALSE_FORWARD(3),     \* 11 -> 14
     CBC_PUSH_LITERAL(Lit.r1),               \* 12
     CBC_THROW,                          \* 13
     CBC_EXT_FINALLY(6),                 \* 14 -> 20
     CBC_PUSH_LITERAL(Lit.c),               \* 15
     CBC_BRANCH_IF_FALSE_FORWARD(3),     \* 16 -> 19
     CBC_PUSH_LITERAL(Lit.s),               \* 17
     CBC_RETURN,                         \* 18
     CBC_CONTEXT_END,                    \* 19
     CBC_RETURN_WITH_BLOCK >>            \* 20

\* function B () { do { try { try { if (c) break; if (c) return g }
\*                            finally { x } }
\*                      finally { if (c) return "s" } } while (c) }
CodeB ==
  << CBC_TRY_CREATE_CONTEXT(13),         \* 1  -> 14
     CBC_TRY_CREATE_CONTEXT(8),          \* 2  -> 10
     CBC_PUSH_LITERAL(Lit.c),               \* 3
     CBC_BRANCH_IF_FALSE_FORWARD(2),     \* 4  -> 6
     CBC_JUMP_FORWARD_EXIT_CONTEXT(17),  \* 5  -> 22
     CBC_PUSH_LITERAL(Lit.c),               \* 6
     CBC_BRANCH_IF_FALSE_FORWARD(3),     \* 7  -> 10
     CBC_PUSH_LITERAL(Lit.g),               \* 8
     CBC_RETURN,                         \* 9
     CBC_EXT_FINALLY(4),                 \* 10 -> 14
     CBC_PUSH_LITERAL(Lit.x),               \* 11
     CBC_POP,                            \* 12
     CBC_CONTEXT_END,                    \* 13
     CBC_EXT_FINALLY(6),                 \* 14 -> 20
     CBC_PUSH_LITERAL(Lit.c),               \* 15
     CBC_BRANCH_IF_FALSE_FORWARD(3),     \* 16 -> 19
     CBC_PUSH_LITERAL(Lit.s),               \* 17
     CBC_RETURN,                         \* 18
     CBC_CONTEXT_END,                    \* 19
     CBC_PUSH_LITERAL(Lit.c),               \* 20
     CBC_BRANCH_IF_TRUE_BACKWARD(20),    \* 21 -> 1
     CBC_RETURN_WITH_BLOCK >>            \* 22

\* function C () { with (x) { for (r2 in x) { if (c) break }
\*                            if (c) return r2 } }
CodeC ==
  << CBC_PUSH_LITERAL(Lit.x),               \* 1
     CBC_EXT_WITH_CREATE_CONTEXT(14),    \* 2  -> 16
     CBC_PUSH_LITERAL(Lit.x),               \* 3
     CBC_EXT_FOR_IN_CREATE_CONTEXT(7),   \* 4  -> 11
     CBC_EXT_FOR_IN_GET_NEXT,            \* 5
     CBC_ASSIGN_SET_IDENT(Lit.r2),           \* 6
     CBC_PUSH_LITERAL(Lit.c),               \* 7
     CBC_BRANCH_IF_FALSE_FORWARD(2),     \* 8  -> 10
     CBC_JUMP_FORWARD_EXIT_CONTEXT(2),   \* 9  -> 11
     CBC_EXT_BRANCH_IF_FOR_IN_HAS_NEXT(5), \* 10 -> 5
     CBC_PUSH_LITERAL(Lit.c),               \* 11
     CBC_BRANCH_IF_FALSE_FORWARD(3),     \* 12 -> 15
     CBC_PUSH_LITERAL(Lit.r2),               \* 13
     CBC_RETURN,                         \* 14
     CBC_CONTEXT_END,                    \* 15
     CBC_RETURN_WITH_BLOCK >>            \* 16

\* function L () { try { with (x) { { let l; if (c) break; if (c) return g } } }
\*                 catch (e) { if (c) throw g } finally { } }
CodeL ==
  << CBC_TRY_CREATE_CONTEXT(13),         \* 1  -> 14
     CBC_PUSH_LITERAL(Lit.x),            \* 2
     CBC_EXT_WITH_CREATE_CONTEXT(11),    \* 3  -> 14
     CBC_BLOCK_CREATE_CONTEXT(9),        \* 4  -> 13
     CBC_PUSH_LITERAL(Lit.c),            \* 5
     CBC_BRANCH_IF_FALSE_FORWARD(2),     \* 6  -> 8
     CBC_JUMP_FORWARD_EXIT_CONTEXT(7),   \* 7  -> 14
     CBC_PUSH_LITERAL(Lit.c),            \* 8
     CBC_BRANCH_IF_FALSE_FORWARD(3),     \* 9  -> 12
     CBC_PUSH_LITERAL(Lit.g),            \* 10
     CBC_RETURN,                         \* 11
     CBC_CONTEXT_END,                    \* 12
     CBC_CONTEXT_END,                    \* 13
     CBC_EXT_CATCH(7),                   \* 14 -> 21
     CBC_EXT_TRY_CREATE_ENV,             \* 15
     CBC_POP,                            \* 16
     CBC_PUSH_LITERAL(Lit.c),            \* 17
     CBC_BRANCH_IF_FALSE_FORWARD(3),     \* 18 -> 21
     CBC_PUSH_LITERAL(Lit.g),            \* 19
     CBC_THROW,                          \* 20
     CBC_EXT_FINALLY(2),                 \* 21 -> 23
     CBC_CONTEXT_END,                    \* 22
     CBC_RETURN_WITH_BLOCK >>            \* 23

\* function TT () { try { try { try { if (c) throw g }
\*                               catch (e) { if (c) throw g } }
\*                         catch (e) { if (c) throw g }
\*                         finally { if (c) throw g } }
\*                   catch (e) { if (c) throw g } }
CodeTT ==
  << CBC_TRY_CREATE_CONTEXT(26),         \* 1  -> 27
     CBC_TRY_CREATE_CONTEXT(13),         \* 2  -> 15
     CBC_TRY_CREATE_CONTEXT(5),          \* 3  -> 8
     CBC_PUSH_LITERAL(Lit.c),            \* 4
     CBC_BRANCH_IF_FALSE_FORWARD(3),     \* 5  -> 8
     CBC_PUSH_LITERAL(Lit.g),            \* 6
     CBC_THROW,                          \* 7
     CBC_EXT_CATCH(6),                   \* 8  -> 14
     CBC_POP,                            \* 9
     CBC_PUSH_LITERAL(Lit.c),            \* 10
     CBC_BRANCH_IF_FALSE_FORWARD(3),     \* 11 -> 14
     CBC_PUSH_LITERAL(Lit.g),            \* 12
     CBC_THROW,                          \* 13
     CBC_CONTEXT_END,                    \* 14
     CBC_EXT_CATCH(6),                   \* 15 -> 21
     CBC_POP,                            \* 16
     CBC_PUSH_LITERAL(Lit.c),            \* 17
     CBC_BRANCH_IF_FALSE_FORWARD(3),     \* 18 -> 21
     CBC_PUSH_LITERAL(Lit.g),            \* 19
     CBC_THROW,                          \* 20
     CBC_EXT_FINALLY(6),                 \* 21 -> 27
     CBC_PUSH_LITERAL(Lit.c),            \* 22
     CBC_BRANCH_IF_FALSE_FORWARD(3),     \* 23 -> 26
     CBC_PUSH_LITERAL(Lit.g),            \* 24
     CBC_THROW,                          \* 25
     CBC_CONTEXT_END,                    \* 26
     CBC_EXT_CATCH(6),                   \* 27 -> 33
     CBC_POP,                            \* 28
     CBC_PUSH_LITERAL(Lit.c),            \* 29
     CBC_BRANCH_IF_FALSE_FORWARD(3),     \* 30 -> 33
     CBC_PUSH_LITERAL(Lit.g),            \* 31
     CBC_THROW,                          \* 32
     CBC_CONTEXT_END,                    \* 33
     CBC_RETURN_WITH_BLOCK >>            \* 34

\* function O () { try { for (r2 of g) { { if (c) break } } } catch (e) { } }
CodeO ==
  << CBC_TRY_CREATE_CONTEXT(13),         \* 1  -> 14
     CBC_PUSH_LITERAL(Lit.g),               \* 2
     CBC_EXT_FOR_OF_CREATE_CONTEXT(9),   \* 3  -> 12
     CBC_EXT_FOR_OF_GET_NEXT,            \* 4
     CBC_ASSIGN_SET_IDENT(Lit.r2),           \* 5
     CBC_BLOCK_CREATE_CONTEXT(5),        \* 6  -> 11
     CBC_PUSH_LITERAL(Lit.c),               \* 7
     CBC_BRANCH_IF_FALSE_FORWARD(2),     \* 8  -> 10
     CBC_JUMP_FORWARD_EXIT_CONTEXT(3),   \* 9  -> 12
     CBC_CONTEXT_END,                    \* 10
     CBC_EXT_BRANCH_IF_FOR_OF_HAS_NEXT(7), \* 11 -> 4
     CBC_PUSH_UNDEFINED,                 \* 12
     CBC_POP_BLOCK,                      \* 13
     CBC_EXT_CATCH(3),                   \* 14 -> 17
     CBC_EXT_TRY_CREATE_ENV,             \* 15
     CBC_POP,                            \* 16
     CBC_CONTEXT_END,                    \* 17
     CBC_RETURN_WITH_BLOCK >>            \* 18

\* function R () { try { for (r2 of g) { return "s" } } finally { } }
CodeR ==
  << CBC_TRY_CREATE_CONTEXT(10),         \* 1  -> 11
     CBC_PUSH_LITERAL(Lit.g),            \* 2
     CBC_EXT_FOR_OF_CREATE_CONTEXT(6),   \* 3  -> 9
     CBC_EXT_FOR_OF_GET_NEXT,            \* 4
     CBC_ASSIGN_SET_IDENT(Lit.r2),       \* 5
     CBC_PUSH_LITERAL(Lit.s),            \* 6
     CBC_RETURN,                         \* 7
     CBC_EXT_BRANCH_IF_FOR_OF_HAS_NEXT(4), \* 8  -> 4
     CBC_PUSH_UNDEFINED,                 \* 9
     CBC_POP_BLOCK,                      \* 10
     CBC_EXT_FINALLY(2),                 \* 11 -> 13
     CBC_CONTEXT_END,                    \* 12
     CBC_RETURN_WITH_BLOCK >>            \* 13

\* function N () { try { try { try { x } finally { r1 = g } }
\*                        finally { r2 = r1 } }
\*                  catch (e) { r1 = e } }
CodeN ==
  << CBC_TRY_CREATE_CONTEXT(13),         \* 1  -> 14
     CBC_TRY_CREATE_CONTEXT(8),          \* 2  -> 10
     CBC_TRY_CREATE_CONTEXT(3),          \* 3  -> 6
     CBC_PUSH_LITERAL(Lit.x),            \* 4
     CBC_POP,                            \* 5
     CBC_EXT_FINALLY(4),                 \* 6  -> 10
     CBC_PUSH_LITERAL(Lit.g),            \* 7
     CBC_ASSIGN_SET_IDENT(Lit.r1),       \* 8
     CBC_CONTEXT_END,                    \* 9
     CBC_EXT_FINALLY(4),                 \* 10 -> 14
     CBC_PUSH_LITERAL(Lit.r1),           \* 11
     CBC_ASSIGN_SET_IDENT(Lit.r2),       \* 12
     CBC_CONTEXT_END,                    \* 13
     CBC_EXT_CATCH(2),                   \* 14 -> 16
     CBC_ASSIGN_SET_IDENT(Lit.r1),       \* 15
     CBC_CONTEXT_END,                    \* 16
     CBC_RETURN_WITH_BLOCK >>            \* 17

\* function D () { try { (function F ...) (); f () } catch (e) { } finally { } }
CodeD ==
  << CBC_TRY_CREATE_CONTEXT(6),          \* 1  -> 7
     CBC_PUSH_LITERAL(Lit.func),            \* 2
     CBC_CALL_PUSH_RESULT(0),            \* 3
     CBC_POP,                            \* 4
     CBC_PUSH_LITERAL(Lit.f),               \* 5
     CBC_CALL(0),                        \* 6
     CBC_EXT_CATCH(2),                   \* 7  -> 9
     CBC_POP,                            \* 8
     CBC_EXT_FINALLY(2),                 \* 9  -> 11
     CBC_CONTEXT_END,                    \* 10
     CBC_RETURN_WITH_BLOCK >>            \* 11

\* function F (r1) { try { while (c) ; return r1 }
\*                   catch (e) { if (c) throw e } }
CodeF ==
  << CBC_TRY_CREATE_CONTEXT(5),          \* 1  -> 6
     CBC_PUSH_LITERAL(Lit.c),               \* 2
     CBC_BRANCH_IF_TRUE_BACKWARD(1),     \* 3  -> 2
     CBC_PUSH_LITERAL(Lit.r1),               \* 4
     CBC_RETURN,                         \* 5
     CBC_EXT_CATCH(6),                   \* 6  -> 12
     CBC_ASSIGN_SET_IDENT(Lit.r2),           \* 7
     CBC_PUSH_LITERAL(Lit.c),               \* 8
     CBC_BRANCH_IF_FALSE_FORWARD(3),     \* 9  -> 12
     CBC_PUSH_LITERAL(Lit.r2),               \* 10
     CBC_THROW,                          \* 11
     CBC_CONTEXT_END,                    \* 12
     CBC_RETURN_WITH_BLOCK >>            \* 13

\* function E () { /re/ }
CodeE ==
  << CBC_PUSH_LITERAL(Lit.regexp),       \* 1
     CBC_POP,                            \* 2
     CBC_RETURN_WITH_BLOCK >>            \* 3

\* function T () { (g, "s", x); g["s"]; r1 = r2 = x; x = true; return r1 }
CodeT ==
  << CBC_PUSH_THREE_LITERALS(Lit.g, Lit.s, Lit.x), \* 1
     CBC_POP,                            \* 2
     CBC_PUSH_PROP,                      \* 3
     CBC_POP_BLOCK,                      \* 4
     CBC_PUSH_TWO_LITERALS(Lit.g, Lit.x), \* 5
     CBC_ASSIGN_SET_IDENT_PUSH_RESULT(Lit.r1), \* 6
     CBC_ASSIGN_SET_IDENT_BLOCK(Lit.r2), \* 7
     CBC_JUMP_FORWARD(2),                \* 8  -> 10
     CBC_POP,                            \* 9
     CBC_PUSH_TRUE,                      \* 10
     CBC_ASSIGN_SET_IDENT(Lit.x),        \* 11
     CBC_POP,                            \* 12
     CBC_RETURN_WITH_LITERAL(Lit.r1) >>  \* 13

\* class S extends k { constructor () { try { r1 = super (g); super (g) }
\*                                       catch (e) { r2 = e } } }
CodeS ==
  << CBC_TRY_CREATE_CONTEXT(6),          \* 1  -> 7
     CBC_PUSH_TWO_LITERALS(Lit.k, Lit.g), \* 2
     CBC_EXT_SUPER_CALL_PUSH_RESULT(1),  \* 3
     CBC_ASSIGN_SET_IDENT(Lit.r1),       \* 4
     CBC_PUSH_TWO_LITERALS(Lit.k, Lit.g), \* 5
     CBC_EXT_SUPER_CALL(1),              \* 6
     CBC_EXT_CATCH(2),                   \* 7  -> 9
     CBC_ASSIGN_SET_IDENT(Lit.r2),       \* 8
     CBC_CONTEXT_END,                    \* 9
     CBC_RETURN_WITH_BLOCK >>            \* 10

\* class SS extends k { constructor () { try { super (g) } catch (e) { }
\*                                        try { r1 = super (g) }
\*                                        catch (e) { r2 = e } } }
CodeSS ==
  << CBC_TRY_CREATE_CONTEXT(3),          \* 1  -> 4
     CBC_PUSH_TWO_LITERALS(Lit.k, Lit.g), \* 2
     CBC_EXT_SUPER_CALL(1),              \* 3
     CBC_EXT_CATCH(2),                   \* 4  -> 6
     CBC_POP,                            \* 5
     CBC_CONTEXT_END,                    \* 6
     CBC_TRY_CREATE_CONTEXT(4),          \* 7  -> 11
     CBC_PUSH_TWO_LITERALS(Lit.k, Lit.g), \* 8
     CBC_EXT_SUPER_CALL_PUSH_RESULT(1),  \* 9
     CBC_ASSIGN_SET_IDENT(Lit.r1),       \* 10
     CBC_EXT_CATCH(2),                   \* 11 -> 13
     CBC_ASSIGN_SET_IDENT(Lit.r2),       \* 12
     CBC_CONTEXT_END,                    \* 13
     CBC_RETURN_WITH_BLOCK >>            \* 14

\* function Y () { try { typeof g; r1 = typeof r2; typeof x; typeof u;
\*                       typeof z }
\*                 catch (e) { } }
CodeY ==
  << CBC_TRY_CREATE_CONTEXT(11),         \* 1  -> 12
     CBC_PUSH_LITERAL(Lit.g),            \* 2
     CBC_TYPEOF,                         \* 3
     CBC_POP,                            \* 4
     CBC_TYPEOF_IDENT(Lit.r2),           \* 5
     CBC_ASSIGN_SET_IDENT(Lit.r1),       \* 6
     CBC_TYPEOF_IDENT(Lit.x),            \* 7
     CBC_POP,                            \* 8
     CBC_TYPEOF_IDENT(Lit.u),            \* 9
     CBC_POP_BLOCK,                      \* 10
     CBC_TYPEOF_IDENT(Lit.z),            \* 11
     CBC_EXT_CATCH(3),                   \* 12 -> 15
     CBC_POP,                            \* 13
     CBC_JUMP_FORWARD(2),                \* 14 -> 16
     CBC_CONTEXT_END,                    \* 15
     CBC_RETURN_WITH_BLOCK >>            \* 16

\* function I () { for (r2 in g) { f () } }
CodeI ==
  << CBC_PUSH_LITERAL(Lit.g),            \* 1
     CBC_EXT_FOR_IN_CREATE_CONTEXT(6),   \* 2  -> 8
     CBC_EXT_FOR_IN_GET_NEXT,            \* 3
     CBC_ASSIGN_SET_IDENT(Lit.r2),       \* 4
     CBC_PUSH_LITERAL(Lit.f),            \* 5
     CBC_CALL(0),                        \* 6
     CBC_EXT_BRANCH_IF_FOR_IN_HAS_NEXT(4), \* 7 -> 3
     CBC_RETURN_WITH_BLOCK >>            \* 8

\* function ADD (a, b) { return a + b } and its like for -, * and %, entered
\* with the operands on the stack
\* function P () { try { b[p]; r1 = (b[p] = g); g = g; r2 = r2; b[p] = g }
\*                 catch (e) { r2 = e } }
\* (the two plain assignments through a reference to the identifier)
CodeP ==
  << CBC_TRY_CREATE_CONTEXT(15),         \* 1  -> 16
     CBC_PUSH_TWO_LITERALS(Lit.b, Lit.p), \* 2
     CBC_PUSH_PROP,                      \* 3
     CBC_POP,                            \* 4
     CBC_PUSH_TWO_LITERALS(Lit.b, Lit.p), \* 5
     CBC_PUSH_LITERAL(Lit.g),            \* 6
     CBC_ASSIGN_PUSH_RESULT,             \* 7
     CBC_ASSIGN_SET_IDENT(Lit.r1),       \* 8
     CBC_PUSH_IDENT_REFERENCE(Lit.g),    \* 9
     CBC_ASSIGN_BLOCK,                   \* 10
     CBC_PUSH_IDENT_REFERENCE(Lit.r2),   \* 11
     CBC_ASSIGN,                         \* 12
     CBC_PUSH_TWO_LITERALS(Lit.b, Lit.p), \* 13
     CBC_PUSH_LITERAL(Lit.g),            \* 14
     CBC_ASSIGN,                         \* 15
     CBC_EXT_CATCH(2),                   \* 16 -> 18
     CBC_ASSIGN_SET_IDENT(Lit.r2),       \* 17
     CBC_CONTEXT_END,                    \* 18
     CBC_RETURN_WITH_BLOCK >>            \* 19

\* function W () { try { new w (g); w (g); w (...[g]);
\*                       new w (...[g]); w (...g) }
\*                 catch (e) { r2 = e } }
\* (the spread arguments but the last already taken out of their arrays)
CodeW ==
  << CBC_TRY_CREATE_CONTEXT(16),         \* 1  -> 17
     CBC_PUSH_TWO_LITERALS(Lit.w, Lit.g), \* 2
     CBC_NEW(1),                         \* 3
     CBC_POP,                            \* 4
     CBC_PUSH_TWO_LITERALS(Lit.w, Lit.g), \* 5
     CBC_CALL(1),                        \* 6
     CBC_PUSH_TWO_LITERALS(Lit.w, Lit.g), \* 7
     CBC_EXT_SPREAD_CALL_PUSH_RESULT(1), \* 8
     CBC_POP,                            \* 9
     CBC_PUSH_TWO_LITERALS(Lit.w, Lit.g), \* 10
     CBC_EXT_SPREAD_NEW(1),              \* 11
     CBC_POP_BLOCK,                      \* 12
     CBC_PUSH_LITERAL(Lit.w),            \* 13
     CBC_EXT_PUSH_SPREAD_ELEMENT,        \* 14
     CBC_PUSH_LITERAL(Lit.g),            \* 15
     CBC_EXT_SPREAD_CALL_BLOCK(2),       \* 16
     CBC_EXT_CATCH(2),                   \* 17 -> 19
     CBC_ASSIGN_SET_IDENT(Lit.r2),       \* 18
     CBC_CONTEXT_END,                    \* 19
     CBC_RETURN_WITH_BLOCK >>            \* 20

\* function* G (r1) { try { (g, yield r1); r2 = yield "s" } finally { } }
CodeG ==
  << CBC_EXT_CREATE_GENERATOR,           \* 1
     CBC_POP,                            \* 2
     CBC_TRY_CREATE_CONTEXT(8),          \* 3  -> 11
     CBC_PUSH_TWO_LITERALS(Lit.g, Lit.r1), \* 4
     CBC_EXT_YIELD,                      \* 5
     CBC_POP,                            \* 6
     CBC_POP,                            \* 7
     CBC_PUSH_LITERAL(Lit.s),            \* 8
     CBC_EXT_YIELD,                      \* 9
     CBC_ASSIGN_SET_IDENT(Lit.r2),       \* 10
     CBC_EXT_FINALLY(2),                 \* 11 -> 13
     CBC_CONTEXT_END,                    \* 12
     CBC_RETURN_WITH_BLOCK >>            \* 13

\* function Q () { r1 = G (g); f (r1); f (r1); f (r1) }
\* (f is an external function, which may resume the generator it is given)
CodeQ ==
  << CBC_PUSH_TWO_LITERALS(Lit.gen, Lit.g), \* 1
     CBC_CALL_PUSH_RESULT(1),            \* 2
     CBC_ASSIGN_SET_IDENT(Lit.r1),       \* 3
     CBC_PUSH_TWO_LITERALS(Lit.f, Lit.r1), \* 4
     CBC_CALL(1),                        \* 5
     CBC_PUSH_TWO_LITERALS(Lit.f, Lit.r1), \* 6
     CBC_CALL(1),                        \* 7
     CBC_PUSH_TWO_LITERALS(Lit.f, Lit.r1), \* 8
     CBC_CALL(1),                        \* 9
     CBC_RETURN_WITH_BLOCK >>            \* 10

\* function X () { if (c) return "s" with g and x on the stack;
\*                 try { return "s" with g and x on the stack } finally { } }
CodeX ==
  << CBC_PUSH_LITERAL(Lit.c),               \* 1
     CBC_BRANCH_IF_FALSE_FORWARD(3),        \* 2  -> 5
     CBC_PUSH_THREE_LITERALS(Lit.g, Lit.x, Lit.s), \* 3
     CBC_EXT_RETURN,                        \* 4
     CBC_TRY_CREATE_CONTEXT(3),             \* 5  -> 8
     CBC_PUSH_THREE_LITERALS(Lit.g, Lit.x, Lit.s), \* 6
     CBC_EXT_RETURN,                        \* 7
     CBC_EXT_FINALLY(2),                    \* 8  -> 10
     CBC_CONTEXT_END,                       \* 9
     CBC_RETURN_WITH_BLOCK >>               \* 10

\* function () { o.n++; ... r1--; } : each increment and decrement opcode
\* with the end of a statement list after it, first the property forms and
\* then the identifier forms on the first register
IncrGroups == <<"PRE_INCR", "PRE_DECR", "POST_INCR", "POST_DECR">>
IncrPuts == <<{}, {"STACK"}, {"BLOCK"}>>
IncrOpcode(k) ==
  IF k < 12
  THEN UnaryLvalueProp(IncrGroups[(k % 4) + 1], IncrPuts[((k \div 4) % 3) + 1])
  ELSE UnaryLvalueIdent(IncrGroups[(k % 4) + 1], 1, IncrPuts[((k \div 4) % 3) + 1])
CodeIncr ==
  [i \in 1..48 |-> IF i % 2 = 0 THEN CBC_RETURN_WITH_BLOCK
                   ELSE IncrOpcode((i - 1) \div 2)]

\* r += r1 for the registers r1 and r2 and the global g, as a statement,
\* as an operand and as the last statement of the block: five opcodes each
RefLiterals == <<Lit.r1, Lit.r2, Lit.g>>
RefAssigns == <<CBC_ASSIGN, CBC_ASSIGN_PUSH_RESULT, CBC_ASSIGN_BLOCK>>
RefStatement(k) ==
  << CBC_PUSH_IDENT_REFERENCE(RefLiterals[(k % 3) + 1]),
     CBC_PUSH_LITERAL(Lit.r1),
     CBC_ADD,
     RefAssigns[(k \div 3) + 1],
     CBC_RETURN_WITH_BLOCK >>
CodeRef ==
  [i \in 1..45 |-> RefStatement((i - 1) \div 5)[((i - 1) % 5) + 1]]

CodeArith(op) == << op, CBC_RETURN >>
ArithUnits == {"ADD", "SUB", "MUL", "MOD"}
\* function (a, b) { return a | b } and the like
\* pdemo.value and pdemo.value = 55, from where the base, the property and
\* the value are on the stack
CodeGetValue == << CBC_PUSH_PROP, CBC_POP_BLOCK, CBC_RETURN_WITH_BLOCK >>
CodeSetValue == << CBC_ASSIGN_BLOCK, CBC_RETURN_WITH_BLOCK >>
\* do { ... } while (a < b): the branch back over BranchDistance(u) bytes
\* takes an offset of 1, 2 or 3 bytes
LessUnits == {"LESS1", "LESS2", "LESS3"}
BranchOffsetLength(u) == CASE u = "LESS1" -> 1 [] u = "LESS2" -> 2 [] u = "LESS3" -> 3
BranchDistance(u) == CASE u = "LESS1" -> 3 [] u = "LESS2" -> 300 [] u = "LESS3" -> 70000
\* byte i (1 is the most significant) of an offset of len bytes
OffsetByteOf(off, len, i) == (off \div 256^(len - i)) % 256
\* the body from the first byte on, LESS at BranchDistance(u), the branch
\* after it, the bytes of its offset, and the return
CodeLess(u) ==
  LET off == BranchDistance(u)
      len == BranchOffsetLength(u)
  IN [i \in 1..(off + len + 2) |->
        IF i < off THEN CBC_PUSH_UNDEFINED
        ELSE IF i = off THEN CBC_LESS
        ELSE IF i = off + 1 THEN CBC_BRANCH_IF_TRUE_BACKWARD_N(len)
        ELSE IF i <= off + 1 + len THEN OffsetByte(OffsetByteOf(off, len, i - off - 1))
        ELSE CBC_RETURN_WITH_BLOCK]
BitUnits ==
  {"BIT_OR", "BIT_XOR", "BIT_AND", "LEFT_SHIFT", "RIGHT_SHIFT", "UNS_RIGHT_SHIFT",
   "BIT_NOT"}

\* The code units that are only called or evaluated.  A function
\* function (a1 .. an, ...rest) { } differs from the next in its header:
\* argument_end, register_end and CBC_CODE_FLAGS_REST_PARAMETER; an eval
\* code in CBC_CODE_FLAGS_STRICT_MODE and CBC_CODE_FLAGS_LEXICAL_BLOCK_NEEDED.
CBC_CODE_FLAGS_REST_PARAMETER == "CBC_CODE_FLAGS_REST_PARAMETER"
CBC_CODE_FLAGS_STRICT_MODE == "CBC_CODE_FLAGS_STRICT_MODE"
CBC_CODE_FLAGS_LEXICAL_BLOCK_NEEDED == "CBC_CODE_FLAGS_LEXICAL_BLOCK_NEEDED"
CalledHeader(argument_end, register_end, status_flags) ==
  [Header EXCEPT !.argument_end = argument_end, !.register_end = register_end,
                 !.status_flags = status_flags]
CalledUnits ==
  {"H00", "H01", "H11", "H02", "H12", "H22", "R01", "R02", "R12", "R13", "R23"}
EvalUnits == {"V", "VS", "VL", "VSL"}
CodeCalled == << CBC_RETURN_WITH_BLOCK >>
\* the callers: a call with argc arguments
CodeCall(argc) == << CBC_CALL_PUSH_RESULT(argc), CBC_RETURN >>
CallUnits == <<"CALL0", "CALL1", "CALL2", "CALL3">>
\* the six forms of a call with 0, 1 and 2 arguments, each followed by the
\* opcode the statement goes on with
CallForm(k, argc) ==
  << CBC_CALL(argc), CBC_CALL_PUSH_RESULT(argc), CBC_CALL_BLOCK(argc), CBC_CALL_PROP(argc),
     CBC_CALL_PROP_PUSH_RESULT(argc), CBC_CALL_PROP_BLOCK(argc) >>[k + 1]
CodeForms ==
  [i \in 1..36 |-> IF i % 2 = 0 THEN CBC_POP_BLOCK
                   ELSE CallForm(((i - 1) \div 2) % 6, (i - 1) \div 12)]

\* eval (g), o.eval (g) and eval (...g): CBC_EVAL before each form of
\* call, each followed by the opcode the statement goes on with
CodeEvalCall ==
  << CBC_EVAL, CBC_CALL_PUSH_RESULT(1), CBC_POP_BLOCK,
     CBC_EVAL, CBC_CALL_PROP_PUSH_RESULT(1), CBC_POP_BLOCK,
     CBC_EVAL, CBC_EXT_SPREAD_CALL_PUSH_RESULT(2), CBC_POP_BLOCK >>

Units ==
  {"A", "B", "C", "O", "R", "N", "S", "Y", "I", "P", "W", "Q", "X", "D", "E", "T",
   "F", "G"}
MainUnits == Units \ {"F", "G"}
Code(u) ==
  CASE u = "A" -> CodeA [] u = "B" -> CodeB [] u = "C" -> CodeC
    [] u = "O" -> CodeO [] u = "D" -> CodeD [] u = "E" -> CodeE
    [] u = "T" -> CodeT [] u = "F" -> CodeF [] u = "R" -> CodeR
    [] u = "N" -> CodeN [] u = "S" -> CodeS [] u = "Y" -> CodeY
    [] u = "I" -> CodeI [] u = "P" -> CodeP
    [] u = "W" -> CodeW [] u = "Q" -> CodeQ [] u = "G" -> CodeG
    [] u = "X" -> CodeX [] u = "INCR" -> CodeIncr [] u = "REF" -> CodeRef
    [] u = "FORMS" -> CodeForms [] u = "L" -> CodeL
    [] u = "EVALCALL" -> CodeEvalCall [] u = "SS" -> CodeSS
    [] u = "TT" -> CodeTT
    [] u = "ADD" -> CodeArith(CBC_ADD) [] u = "SUB" -> CodeArith(CBC_SUBTRACT)
    [] u = "MUL" -> CodeArith(CBC_MULTIPLY) [] u = "MOD" -> CodeArith(CBC_MODULO)
    [] u = "BIT_OR" -> CodeArith(CBC_BIT_OR) [] u = "BIT_XOR" -> CodeArith(CBC_BIT_XOR)
    [] u = "BIT_AND" -> CodeArith(CBC_BIT_AND) [] u = "BIT_NOT" -> CodeArith(CBC_BIT_NOT)
    [] u = "LEFT_SHIFT" -> CodeArith(CBC_LEFT_SHIFT)
    [] u = "RIGHT_SHIFT" -> CodeArith(CBC_RIGHT_SHIFT)
    [] u = "UNS_RIGHT_SHIFT" -> CodeArith(CBC_UNS_RIGHT_SHIFT)
    [] u \in LessUnits -> CodeLess(u)
    [] u = "PGET" -> CodeGetValue [] u = "PSET" -> CodeSetValue
    [] u \in CalledUnits \cup EvalUnits -> CodeCalled
    [] u = "CALL0" -> CodeCall(0) [] u = "CALL1" -> CodeCall(1)
    [] u = "CALL2" -> CodeCall(2) [] u = "CALL3" -> CodeCall(3)
\* the header of a code unit (bytecode_header_p)
CodeHeader(u) ==
  CASE u = "H00" -> CalledHeader(0, 0, {})
    [] u = "H01" -> CalledHeader(0, 1, {})
    [] u = "H11" -> CalledHeader(1, 1, {})
    [] u = "H02" -> CalledHeader(0, 2, {})
    [] u = "H12" -> CalledHeader(1, 2, {})
    [] u = "H22" -> CalledHeader(2, 2, {})
    [] u = "R01" -> CalledHeader(0, 1, {CBC_CODE_FLAGS_REST_PARAMETER})
    [] u = "R02" -> CalledHeader(0, 2, {CBC_CODE_FLAGS_REST_PARAMETER})
    [] u = "R12" -> CalledHeader(1, 2, {CBC_CODE_FLAGS_REST_PARAMETER})
    [] u = "R13" -> CalledHeader(1, 3, {CBC_CODE_FLAGS_REST_PARAMETER})
    [] u = "R23" -> CalledHeader(2, 3, {CBC_CODE_FLAGS_REST_PARAMETER})
    [] u = "V" -> CalledHeader(0, 0, {})
    [] u = "VS" -> CalledHeader(0, 0, {CBC_CODE_FLAGS_STRICT_MODE})
    [] u = "VL" -> CalledHeader(0, 1, {CBC_CODE_FLAGS_LEXICAL_BLOCK_NEEDED})
    [] u = "VSL" -> CalledHeader(0, 1, {CBC_CODE_FLAGS_STRICT_MODE,
                                        CBC_CODE_FLAGS_LEXICAL_BLOCK_NEEDED})
    [] OTHER -> Header
\* the synthetic byte code opfunc_call leaves behind on failure
vm_error_byte_code_p == << CBC_EXT_ERROR >>

(***************************************************************************)
(* State.                                                                  *)
(*   frames       the chain of vm_frame_ctx_t records, innermost last      *)
(*   heap         the cells and their reference counts                     *)
(*   jcontext     JERRY_CONTEXT: pending-exception slot, its flags, and    *)
(*                the stop callback with its counter and frequency         *)
(*   left_value, right_value, result   the locals of vm_loop               *)
(*   completion   the value vm_loop / vm_execute handed to its caller      *)
(*   phase        where control is: "loop" (about to decode an opcode),    *)
(*                "error" (at the error label), "exec" (vm_loop returned   *)
(*                to vm_execute), "ret" (a callee returned into            *)
(*                opfunc_call), "done" (the outermost vm_run returned)     *)
(***************************************************************************)
VARIABLES frames, heap, jcontext, left_value, right_value, result,
          completion, phase

vars == <<frames, heap, jcontext, left_value, right_value, result,
          completion, phase>>

VM_NO_EXEC_OP == "VM_NO_EXEC_OP"
VM_EXEC_CALL == "VM_EXEC_CALL"
VM_EXEC_SUPER_CALL == "VM_EXEC_SUPER_CALL"
VM_EXEC_SPREAD_OP == "VM_EXEC_SPREAD_OP"
VM_EXEC_CONSTRUCT == "VM_EXEC_CONSTRUCT"
VM_EXEC_RETURN == "VM_EXEC_RETURN"

\* vm_init_exec without the cut at argument_end: arguments fill the
\* registers as far as they go
CopiedArgumentsUncut(u, args) ==
  IF Len(args) > CodeHeader(u).register_end
  THEN CodeHeader(u).register_end ELSE Len(args)

\* the number of arguments vm_init_exec copies into registers
CopiedArguments(u, args) ==
  IF Len(args) > CodeHeader(u).argument_end
  THEN CodeHeader(u).argument_end ELSE Len(args)

\* the arguments the rest array of vm_init_exec collects:
\* arg_p + arg_list_len, function_call_argument_count - arg_list_len
RestArguments(u, args) ==
  SubSeq(args, CopiedArguments(u, args) + 1, Len(args))

\* ecma_op_create_array_object: the heap with a new array of copies of the
\* values items
ecma_op_create_array_object(h, items) ==
  [Alloc(h, "array", 0) EXCEPT ![NewCell(h)].items = items]

\* vm_run and vm_init_exec: the frame for code unit u called with the
\* arguments args, this binding and environment in the heap h; is_eval_code
\* says that the argument list is VM_DIRECT_EVAL (and args is empty)
vm_run(h, u, this_binding_value, lex_env, args, is_eval_code) ==
  [unit |-> u,
   \* the instructions of the unit the frame runs
   byte_code_start_p |-> Code(u),
   is_eval_code |-> is_eval_code,
   pc |-> 1,
   error_code |-> FALSE,
   regs |-> [i \in 1..CodeHeader(u).register_end |->
               IF i <= CopiedArguments(u, args) THEN args[i]
               ELSE IF /\ CBC_CODE_FLAGS_REST_PARAMETER \in CodeHeader(u).status_flags
                       /\ i = CodeHeader(u).argument_end + 1
               THEN Ptr(NewCell(h))
               ELSE ECMA_VALUE_UNDEFINED],
   stack |-> <<>>,
   context_depth |-> 0,
   lex_env |-> lex_env,
   block_result |-> ECMA_VALUE_UNDEFINED,
   this_binding |-> this_binding_value,
   this_prop |-> ECMA_VALUE_UNINITIALIZED,
   call_operation |-> VM_NO_EXEC_OP,
   \* the cell of the executable object the frame belongs to (0: none)
   executable_object |-> 0,
   \* the frame that was the top context when this one was entered, as its
   \* place in the chain (0: NULL); Chained sets it
   prev_context_p |-> 0]

\* vm_init_exec linking the frame f into the chain: the top context of the
\* context e becomes its parent
Chained(f, e) == [f EXCEPT !.prev_context_p = e.vm_top_context_p]

\* the frame of a function called with the arguments args
vm_init_exec(u, args) ==
  vm_run(InitHeap, u, ECMA_VALUE_UNINITIALIZED, <<>>, args, FALSE)

\* the references vm_init_exec takes for the arguments it copies, and the
\* rest array it creates
InitExecHeap(h, u, args) ==
  LET copied == CopyAll(h, SubSeq(args, 1, CopiedArguments(u, args)))
  IN IF CBC_CODE_FLAGS_REST_PARAMETER \in CodeHeader(u).status_flags
     THEN CopyAll(ecma_op_create_array_object(copied, RestArguments(u, args)),
                  RestArguments(u, args))
     ELSE copied

InitContext(cb, freq) ==
  [error_value |-> ECMA_VALUE_UNDEFINED,
   exception |-> FALSE,
   abort |-> FALSE,
   \* whether the engine is built with JERRY_VM_EXEC_STOP
   JERRY_VM_EXEC_STOP |-> TRUE,
   vm_exec_stop_cb |-> cb,
   vm_exec_stop_frequency |-> freq,
   vm_exec_stop_counter |-> freq,
   \* history: what the stop callback returned last, how often it has been
   \* called (modulo 2), and how many backward-branch opcodes ran since
   stop_last |-> "none",
   stop_calls |-> 0,
   \* history: how often ecma_op_function_construct has run (modulo 2)
   constructs |-> 0,
   \* history: how often ecma_op_function_call has run (modulo 2)
   calls |-> 0,
   \* history: how often ecma_op_iterator_close has run (modulo 2)
   closes |-> 0,
   \* history: the value the last increment or decrement read, and the value
   \* it handed to the put of its result
   get_value |-> ECMA_VALUE_EMPTY,
   put_value |-> ECMA_VALUE_EMPTY,
   \* ECMA_STATUS_DIRECT_EVAL of status_flags
   direct_eval |-> FALSE,
   \* history: whether the last arithmetic opcode took its integer path
   int_path |-> FALSE,
   \* history: the names FOR_IN_GET_NEXT has delivered since the last
   \* FOR_IN_CREATE_CONTEXT
   delivered |-> <<>>,
   \* history: the collaborators the last vm_op_get_value or vm_op_set_value
   \* called, in the order of the calls
   prop_path |-> <<>>,
   \* whether the engine is built with JERRY_LCACHE, and the entries of the
   \* lookup cache
   JERRY_LCACHE |-> FALSE,
   lcache |-> {},
   \* the embedder's state: demo_value of the native handlers
   demo_value |-> 0,
   \* history: the calls of the native handlers, in the order they were
   \* made; how many property accesses the embedder has started, and the
   \* last of them
   traps |-> <<>>,
   accesses |-> 0,
   access |-> [by |-> "none", op |-> "none", object |-> ECMA_VALUE_UNDEFINED,
               name |-> ECMA_VALUE_UNDEFINED, value |-> ECMA_VALUE_UNDEFINED],
   bwd_since |-> 0,
   \* whether the engine is built with JERRY_DEBUGGER
   JERRY_DEBUGGER |-> FALSE,
   \* what the calls of vm_run_eval hold that they have not given back, the
   \* innermost call last: the copy of the this binding, whether the
   \* reference to the environment has been taken, and the byte code
   run_eval |-> <<>>,
   \* JERRY_CONTEXT (vm_top_context_p): the place in the chain of the frame
   \* that is the top context (0: NULL)
   vm_top_context_p |-> 1]

Init ==
  /\ \E u \in MainUnits : frames = << vm_init_exec(u, <<>>) >>
  /\ \E ns \in SUBSET (1..MaxNames) : heap = WithNames(InitHeap, ns)
  /\ \E cb \in BOOLEAN, freq \in 1..MaxFrequency : jcontext = InitContext(cb, freq)
  /\ left_value = ECMA_VALUE_UNDEFINED
  /\ right_value = ECMA_VALUE_UNDEFINED
  /\ result = ECMA_VALUE_EMPTY
  /\ completion = ECMA_VALUE_EMPTY
  /\ phase = "loop"

Top == frames[Len(frames)]
SetTop(f) == [frames EXCEPT ![Len(frames)] = f]
\* the instruction at byte_code_p
CurIns(f) == IF f.error_code THEN vm_error_byte_code_p[1] ELSE f.byte_code_start_p[f.pc]
Depth(f) == Len(f.stack)
\* the operand part of the stack, above the context records
Operands(f) == Len(f.stack) - f.context_depth
PushN(f, vs) == [f EXCEPT !.stack = @ \o vs]
PopN(f, n) == [f EXCEPT !.stack = SubSeq(@, 1, Len(@) - n)]
\* stack_top_p[-k]
StackTop(f, k) == f.stack[Len(f.stack) + 1 - k]

(***************************************************************************)
(* The pending-exception slot.                                             *)
(***************************************************************************)
jcontext_has_pending_exception(e) == e.exception
jcontext_has_pending_abort(e) == e.abort
jcontext_raise_exception(e, v) ==
  [e EXCEPT !.error_value = v, !.exception = TRUE]
\* hands the slot's value to the caller and clears both flags
jcontext_take_exception(e) ==
  [e EXCEPT !.error_value = ECMA_VALUE_UNDEFINED, !.exception = FALSE, !.abort = FALSE]
jcontext_set_abort_flag(e, b) == [e EXCEPT !.abort = b]

\* ecma_raise_*_error: a new error object becomes the pending exception
RaiseHeap(h) == Alloc(h, "error", 0)
RaiseCtx(h, e) == jcontext_raise_exception(e, Ptr(NewCell(h)))

\* the classes of error object the interpreter raises itself
ECMA_ERROR_RANGE == 3
ECMA_ERROR_REFERENCE == 4
ECMA_ERROR_TYPE == 6
\* ecma_raise_standard_error: a new error object of the given class becomes
\* the pending exception
ecma_raise_standard_error(h, e, type) ==
  IF HasFree(h)
  THEN {[val |-> ECMA_VALUE_ERROR, heap |-> Alloc(h, "error", type),
         ctx |-> RaiseCtx(h, e), fail |-> TRUE]}
  ELSE {}
ecma_raise_reference_error(h, e) ==
  ecma_raise_standard_error(h, e, ECMA_ERROR_REFERENCE)
ecma_raise_type_error(h, e) == ecma_raise_standard_error(h, e, ECMA_ERROR_TYPE)

(***************************************************************************)
(* Collaborators outside vm.c, as the set of outcomes they can have.       *)
(***************************************************************************)
\* what a name can be bound to when ecma_op_resolve_reference_value finds it
IdentValues(name) ==
  CASE name = "c" -> {ECMA_VALUE_TRUE, ECMA_VALUE_FALSE}
    [] name = "x" -> {Ptr(2), ECMA_VALUE_UNDEFINED}
    [] name = "g" -> {Ptr(2)}
    [] name = "f" -> {Ptr(3)}
    [] name = "k" -> {Ptr(3), Ptr(2)}
    [] name = "p" -> {Ptr(1), IntValue(1), Ptr(2)}
    [] name = "b" -> {ECMA_VALUE_UNDEFINED, ECMA_VALUE_NULL, ECMA_VALUE_TRUE,
                      Ptr(1), Ptr(2)}
    [] name = "w" -> {Ptr(3), Ptr(2), ECMA_VALUE_TRUE}
    [] name \in {"u", "z"} -> {}
\* names whose resolution can raise a ReferenceError
IdentMayFail(name) == name \in {"c", "x", "u", "z"}
\* names that no environment of the scope chain binds ("z" is bound, but
\* still in its temporal dead zone: reading it throws)
UnboundNames == {"u"}

ecma_op_to_boolean(v) ==
  CASE v.t = "direct" -> v = ECMA_VALUE_TRUE
    [] v.t = "int" -> v.v # 0
    [] OTHER -> TRUE

Outcome(val, h, e, fail) == [val |-> val, heap |-> h, ctx |-> e, fail |-> fail]

\* the outcome of raising a new error object: ECMA_VALUE_ERROR, exception pending
Raised(h, e, fail) ==
  IF HasFree(h) THEN {Outcome(ECMA_VALUE_ERROR, RaiseHeap(h), RaiseCtx(h, e), fail)}
  ELSE {}

\* a newly created object of the given kind
Created(h, e, kind, code) ==
  IF HasFree(h) THEN {Outcome(Ptr(NewCell(h)), Alloc(h, kind, code), e, FALSE)}
  ELSE {}

\* ecma_op_to_object: throws for undefined and null, wraps other primitives
ecma_op_to_object(h, e, v) ==
  IF v \in {ECMA_VALUE_UNDEFINED, ECMA_VALUE_NULL} THEN Raised(h, e, TRUE)
  ELSE IF ecma_is_value_object(h, v) THEN {Outcome(v, CopyRef(h, v), e, FALSE)}
  ELSE Created(h, e, "object", 0)

\* vm_construct_literal_object: a regexp literal whose allocation fails gives
\* ECMA_VALUE_ERROR; a function literal always gives a function object
vm_construct_literal_object(h, e, lit) ==
  IF lit.k = "regexp"
  THEN Raised(h, e, FALSE) \cup Created(h, e, "regexp", 0)
  ELSE Created(h, e, "function", lit.unit)

\* READ_LITERAL: the value read, and whether the macro left through goto error
READ_LITERAL(f, h, e, literal_index) ==
  IF literal_index <= Header.ident_end
  THEN IF literal_index <= Header.register_end
       THEN {Outcome(f.regs[literal_index], CopyRef(h, f.regs[literal_index]), e, FALSE)}
       ELSE {Outcome(v, CopyRef(h, v), e, FALSE) :
                v \in IdentValues(Literals[literal_index].name)}
            \cup (IF IdentMayFail(Literals[literal_index].name)
                  THEN Raised(h, e, TRUE) ELSE {})
  ELSE IF literal_index <= Header.const_literal_end
       THEN {Outcome(Literals[literal_index].v,
                     CopyRef(h, Literals[literal_index].v), e, FALSE)}
       ELSE vm_construct_literal_object(h, e, Literals[literal_index])

(***************************************************************************)
(* Operand fetch of vm_loop.  Each outcome gives the frame, heap and       *)
(* context after the fetch, left_value and right_value, and whether the    *)
(* fetch left through goto error.                                          *)
(***************************************************************************)
Fetched(f, h, e, l, r, fail) ==
  [f |-> f, heap |-> h, ctx |-> e, left |-> l, right |-> r, fail |-> fail]

FetchLiteral(f, h, e, ins) ==
  {Fetched(f, o.heap, o.ctx,
           IF o.fail THEN ECMA_VALUE_UNDEFINED ELSE o.val,
           ECMA_VALUE_UNDEFINED, o.fail) : o \in READ_LITERAL(f, h, e, ins.a)}

FetchLiteralLiteral(f, h, e, ins) ==
  UNION { IF o.fail THEN {o}
          ELSE {Fetched(f, p.heap, p.ctx, o.left,
                        IF p.fail THEN ECMA_VALUE_UNDEFINED ELSE p.val, p.fail) :
                  p \in READ_LITERAL(f, o.heap, o.ctx, ins.b)} :
          o \in FetchLiteral(f, h, e, ins) }

FetchStack(f, h, e) ==
  {Fetched(PopN(f, 1), h, e, StackTop(f, 1), ECMA_VALUE_UNDEFINED, FALSE)}

FetchStackStack(f, h, e) ==
  {Fetched(PopN(f, 2), h, e, StackTop(f, 2), StackTop(f, 1), FALSE)}

\* the stop callback returns undefined, a value, or an error reference that
\* is or is not marked as an abort
StopResults == {"undefined", "value", "error", "abort"}

\* the context after the stop callback has been called and returned r
StopCalled(e, r) ==
  [e EXCEPT !.stop_last = r, !.stop_calls = 1 - @, !.bwd_since = 0]

\* the callback's result raised with the abort flag left as the result is
\* marked
StopRaiseAsMarked(h, e, r) ==
  jcontext_set_abort_flag(
    [RaiseCtx(h, StopCalled(e, r)) EXCEPT !.vm_exec_stop_counter = 1],
    r = "abort")

\* the callback's result raised: an error reference sets the abort flag as it
\* is marked, a plain value is raised as it is; the abort flag is set after
StopRaise(h, e, r) ==
  jcontext_set_abort_flag(
    jcontext_set_abort_flag(
      [RaiseCtx(h, StopCalled(e, r)) EXCEPT !.vm_exec_stop_counter = 1],
      r = "abort"),
    TRUE)

\* the backward-branch part with the counter left at zero after a call that
\* returned undefined
FetchBranchNoReset(f, h, e, ins) ==
  IF ins.bwd /\ e.vm_exec_stop_cb
  THEN IF e.vm_exec_stop_counter - 1 = 0
       THEN {Fetched(f, h,
                     [StopCalled(e, "undefined") EXCEPT !.vm_exec_stop_counter = 0],
                     ECMA_VALUE_UNDEFINED, ECMA_VALUE_UNDEFINED, FALSE)}
       ELSE {Fetched(f, h,
                     [e EXCEPT !.vm_exec_stop_counter = @ - 1,
                               !.bwd_since = IF @ <= MaxFrequency THEN @ + 1 ELSE @],
                     ECMA_VALUE_UNDEFINED, ECMA_VALUE_UNDEFINED, FALSE)}
  ELSE {Fetched(f, h, e, ECMA_VALUE_UNDEFINED, ECMA_VALUE_UNDEFINED, FALSE)}

\* the backward-branch part of the branch-operand fetch
FetchBranch(f, h, e, ins) ==
  IF ins.bwd /\ e.vm_exec_stop_cb
  THEN IF e.vm_exec_stop_counter - 1 = 0
       THEN {Fetched(f, h,
                     [StopCalled(e, "undefined") EXCEPT
                        !.vm_exec_stop_counter = e.vm_exec_stop_frequency],
                     ECMA_VALUE_UNDEFINED, ECMA_VALUE_UNDEFINED, FALSE)}
            \cup
            (IF HasFree(h)
             THEN {Fetched(f, RaiseHeap(h), StopRaise(h, e, r),
                           ECMA_VALUE_UNDEFINED, ECMA_VALUE_UNDEFINED, TRUE) :
                     r \in StopResults \ {"undefined"}}
             ELSE {})
       ELSE {Fetched(f, h,
                     [e EXCEPT !.vm_exec_stop_counter = @ - 1,
                               !.bwd_since = IF @ <= MaxFrequency THEN @ + 1 ELSE @],
                     ECMA_VALUE_UNDEFINED, ECMA_VALUE_UNDEFINED, FALSE)}
  ELSE {Fetched(f, h, e, ECMA_VALUE_UNDEFINED, ECMA_VALUE_UNDEFINED, FALSE)}

Fetch(f, h, e, ins) ==
  CASE ins.args = "LITERAL" -> FetchLiteral(f, h, e, ins)
    [] ins.args = "LITERAL_LITERAL" -> FetchLiteralLiteral(f, h, e, ins)
    [] ins.args = "STACK" -> FetchStack(f, h, e)
    [] ins.args = "STACK_STACK" -> FetchStackStack(f, h, e)
    [] ins.args = "BRANCH" -> FetchBranch(f, h, e, ins)
    [] OTHER -> {Fetched(f, h, e, ECMA_VALUE_UNDEFINED, ECMA_VALUE_UNDEFINED, FALSE)}

(***************************************************************************)
(* Lexical environments pushed by a frame.  An object-bound environment    *)
(* holds a reference to its binding object.                                *)
(***************************************************************************)
\* ecma_create_decl_lex_env; block says whether ECMA_OBJECT_FLAG_BLOCK is set
ecma_create_decl_lex_env ==
  [kind |-> "decl", obj |-> ECMA_VALUE_UNDEFINED, block |-> FALSE]
DeclEnv == [ecma_create_decl_lex_env EXCEPT !.block = TRUE]
ObjectEnv(obj) == [kind |-> "object", obj |-> obj, block |-> TRUE]
State(f, h, e) == [f |-> f, heap |-> h, ctx |-> e]

\* frame_ctx_p->lex_env_p = outer; ecma_deref_object (lex_env_p)
opfunc_pop_lexical_environment(f, h) ==
  [f |-> [f EXCEPT !.lex_env = SubSeq(@, 1, Len(@) - 1)],
   heap |-> FreeRef(h, f.lex_env[Len(f.lex_env)].obj)]

\* pops the record's environment when VM_CONTEXT_HAS_LEX_ENV is set
PopEnvIfFlagged(f, h) ==
  IF StackTop(f, 1).lex THEN opfunc_pop_lexical_environment(f, h)
  ELSE [f |-> f, heap |-> h]

\* removes the top n slots, which belong to a context record
DropContext(f, n) ==
  [PopN(f, n) EXCEPT !.context_depth = @ - n]

\* ecma_op_iterator_close: an exception already pending is kept; otherwise
\* the iterator's return method may throw
IteratorClosed(h, e) ==
  IF jcontext_has_pending_exception(e) THEN {[heap |-> h, ctx |-> e]}
  ELSE {[heap |-> h, ctx |-> e]}
       \cup {[heap |-> o.heap, ctx |-> o.ctx] : o \in Raised(h, e, TRUE)}
ecma_op_iterator_close(h, e) == IteratorClosed(h, [e EXCEPT !.closes = 1 - @])

\* vm_stack_context_abort: releases what the top context record holds and
\* removes the record
vm_stack_context_abort(f, h, e) ==
  LET kind == StackTop(f, 1).kind
      p == PopEnvIfFlagged(f, h)
  IN CASE kind \in {"FINALLY_THROW", "FINALLY_RETURN"} ->
            {State(DropContext(p.f, PARSER_TRY_CONTEXT_STACK_ALLOCATION),
                   FreeRef(p.heap, StackTop(f, 2)), e)}
       [] kind \in {"FINALLY_JUMP", "TRY", "CATCH"} ->
            {State(DropContext(p.f, PARSER_TRY_CONTEXT_STACK_ALLOCATION), p.heap, e)}
       [] kind \in {"BLOCK", "WITH"} ->
            {State(DropContext(p.f, PARSER_WITH_CONTEXT_STACK_ALLOCATION), p.heap, e)}
       [] kind = "FOR_OF" ->
            {State(DropContext(p.f, PARSER_FOR_OF_CONTEXT_STACK_ALLOCATION),
                   FreeRef(FreeRef(c.heap, StackTop(f, 2)), StackTop(f, 3)), c.ctx) :
               c \in (IF StackTop(f, 1).close THEN ecma_op_iterator_close(p.heap, e)
                      ELSE {[heap |-> p.heap, ctx |-> e]})}
       [] kind = "FOR_IN" ->
            {State(DropContext(p.f, PARSER_FOR_IN_CONTEXT_STACK_ALLOCATION),
                   FreeRef(FreeAll(p.heap,
                                   RemainingNames(StackTop(f, 2), StackTop(f, 3).v)),
                           StackTop(f, 4)),
                   e)}

\* the top record's tag replaced: VM_CREATE_CONTEXT (kind, end)
Retag(f, kind, end) ==
  [f EXCEPT !.stack[Len(f.stack)] = VM_CREATE_CONTEXT(kind, end)]

Found(f, h, e, found) == [f |-> f, heap |-> h, ctx |-> e, found |-> found]

\* vm_stack_find_finally: walks the context records from the top.  A throw
\* is received by a try record with a catch block or a finally block, a
\* return by a finally block, a jump by a finally block the target lies
\* beyond; other records on the way are aborted.  On success the record is
\* retagged and byte_code_p set to the start of the receiving block.
RECURSIVE vm_stack_find_finally(_, _, _, _, _)
vm_stack_find_finally(f, h, e, finally_type, limit) ==
  \* the search limit is the largest word unless a jump is searched for
  LET limited == finally_type = "FINALLY_JUMP"
  IN IF f.context_depth = 0 THEN {Found(f, h, e, FALSE)}
     ELSE
       LET tag == StackTop(f, 1)
           context_end == tag.end
       IN IF limited /\ limit < context_end THEN {Found(f, h, e, FALSE)}
          ELSE IF tag.kind \in {"TRY", "CATCH"}
          THEN IF limited /\ limit = context_end THEN {Found(f, h, e, FALSE)}
               ELSE
                 LET p == PopEnvIfFlagged(f, h)
                     at == f.byte_code_start_p[context_end]
                     \* where the receiving finally block would start
                     fin == IF tag.kind = "TRY" /\ at.group = "CATCH"
                            THEN context_end + at.off ELSE context_end
                 IN IF tag.kind = "TRY" /\ at.group = "CATCH"
                       /\ finally_type = "FINALLY_THROW"
                    THEN {Found([Retag(p.f, "CATCH", context_end + at.off)
                                   EXCEPT !.pc = context_end + 1, !.error_code = FALSE],
                                p.heap, e, TRUE)}
                    ELSE IF f.byte_code_start_p[fin].group = "CONTEXT_END"
                    THEN vm_stack_find_finally(
                           DropContext(p.f, PARSER_TRY_CONTEXT_STACK_ALLOCATION),
                           p.heap, e, finally_type, limit)
                    ELSE {Found([Retag(p.f, finally_type,
                                       fin + f.byte_code_start_p[fin].off)
                                   EXCEPT !.pc = fin + 1, !.error_code = FALSE],
                                p.heap, e, TRUE)}
          ELSE UNION { vm_stack_find_finally(a.f, a.heap, a.ctx, finally_type, limit) :
                       a \in vm_stack_context_abort(f, h, e) }

(***************************************************************************)
(* How an opcode handler ends.                                             *)
(***************************************************************************)
\* `continue': the next opcode is decoded; result is rewritten before it is
\* read again
Continue(f, h, e) ==
  /\ frames' = SetTop(f)
  /\ heap' = h
  /\ jcontext' = e
  /\ left_value' = ECMA_VALUE_UNDEFINED
  /\ right_value' = ECMA_VALUE_UNDEFINED
  /\ result' = ECMA_VALUE_EMPTY
  /\ phase' = "loop"
  /\ UNCHANGED completion

\* `goto error' with the given locals
GotoError(f, h, e, l, r, res) ==
  /\ frames' = SetTop(f)
  /\ heap' = h
  /\ jcontext' = e
  /\ left_value' = l
  /\ right_value' = r
  /\ result' = res
  /\ phase' = "error"
  /\ UNCHANGED completion

\* the operand fetch itself left through goto error
FetchFailed(o) == GotoError(o.f, o.heap, o.ctx, o.left, o.right, ECMA_VALUE_ERROR)

\* only left_value released
FreeLeftValueOnly(f, h, e, l, r) == Continue(f, FreeRef(h, l), e)

\* free_both_values / free_left_value, then the next opcode
FreeBothValues(f, h, e, l, r) == Continue(f, FreeRef(FreeRef(h, r), l), e)

At(group) == phase = "loop" /\ CurIns(Top).group = group
\* byte_code_p once the opcode and its operands are read
Advance(f) == [f EXCEPT !.pc = @ + 1 + CurIns(f).len]
\* branch_offset of the bytes of an offset: each byte is shifted in below
\* the ones before it
RECURSIVE DecodeOffset(_, _)
DecodeOffset(bytes, branch_offset) ==
  IF bytes = <<>> THEN branch_offset
  ELSE DecodeOffset(Tail(bytes), branch_offset * 256 + Head(bytes))
\* the offset bytes after the opcode at byte_code_start_p
OffsetBytes(f, byte_code_start_p, branch_offset_length) ==
  [i \in 1..branch_offset_length |-> f.byte_code_start_p[byte_code_start_p + i].x]
\* the offset a branch opcode reads
BranchOffset(f, ins) ==
  IF ins.len = 0 THEN ins.off ELSE DecodeOffset(OffsetBytes(f, f.pc, ins.len), 0)
\* byte_code_p = byte_code_start_p + branch_offset
BranchTarget(f, ins) ==
  IF ins.bwd THEN f.pc - BranchOffset(f, ins) ELSE f.pc + BranchOffset(f, ins)
Jump(f, ins) == [f EXCEPT !.pc = BranchTarget(f, ins)]

(***************************************************************************)
(* Opcode groups: stack and literals.                                      *)
(***************************************************************************)
VM_OC_POP ==
  /\ At("POP")
  /\ Continue(PopN(Advance(Top), 1), FreeRef(heap, StackTop(Top, 1)), jcontext)

VM_OC_POP_BLOCK ==
  /\ At("POP_BLOCK")
  /\ Continue([PopN(Advance(Top), 1) EXCEPT !.block_result = StackTop(Top, 1)],
              FreeRef(heap, Top.block_result), jcontext)

VM_OC_PUSH ==
  /\ At("PUSH")
  /\ \E o \in Fetch(Top, heap, jcontext, CurIns(Top)) :
       IF o.fail THEN FetchFailed(o)
       ELSE Continue(PushN(Advance(o.f), <<o.left>>), o.heap, o.ctx)

VM_OC_PUSH_TWO ==
  /\ At("PUSH_TWO")
  /\ \E o \in Fetch(Top, heap, jcontext, CurIns(Top)) :
       IF o.fail THEN FetchFailed(o)
       ELSE Continue(PushN(Advance(o.f), <<o.left, o.right>>), o.heap, o.ctx)

\* the first literal is pushed before the third is read
VM_OC_PUSH_THREE ==
  /\ At("PUSH_THREE")
  /\ \E o \in Fetch(Top, heap, jcontext, CurIns(Top)) :
       IF o.fail THEN FetchFailed(o)
       ELSE \E p \in READ_LITERAL(o.f, o.heap, o.ctx, CurIns(Top).x) :
              IF p.fail
              THEN GotoError(PushN(o.f, <<o.left>>), p.heap, p.ctx,
                             ECMA_VALUE_UNDEFINED, o.right, ECMA_VALUE_ERROR)
              ELSE Continue(PushN(Advance(o.f), <<o.left, o.right, p.val>>),
                            p.heap, p.ctx)

VM_OC_PUSH_UNDEFINED ==
  /\ At("PUSH_UNDEFINED")
  /\ Continue(PushN(Advance(Top), <<ECMA_VALUE_UNDEFINED>>), heap, jcontext)

VM_OC_PUSH_TRUE ==
  /\ At("PUSH_TRUE")
  /\ Continue(PushN(Advance(Top), <<ECMA_VALUE_TRUE>>), heap, jcontext)

(***************************************************************************)
(* Numbers.  An integer value carries its integer; a float value carries   *)
(* an ecma_number_t, here a NaN or a sign and an integer magnitude         *)
(* hi * 2^28 + lo (every number the opcodes below produce from operands    *)
(* under 2^28 in magnitude is such an integer, exactly representable in a  *)
(* double), so that -0.0 is a value of its own and no product wraps.       *)
(***************************************************************************)
ECMA_INTEGER_NUMBER_MAX == 134217727
ECMA_INTEGER_NUMBER_MIN == -134217728
ECMA_INTEGER_MULTIPLY_MAX == 11585

Limb == 2^28
HalfLimb == 2^14
Abs(n) == IF n < 0 THEN -n ELSE n
Float(neg, hi, lo) == [t |-> "float", nan |-> FALSE, neg |-> neg, hi |-> hi, lo |-> lo]
ECMA_NUMBER_NAN == [t |-> "float", nan |-> TRUE, neg |-> FALSE, hi |-> 0, lo |-> 0]
\* (ecma_number_t) n
NumberOfInteger(n) ==
  IF n >= 0 THEN Float(FALSE, n \div Limb, n % Limb)
  ELSE LET m == -(n + 1)
       IN Float(TRUE, (m \div Limb) + (IF m % Limb = Limb - 1 THEN 1 ELSE 0),
                ((m % Limb) + 1) % Limb)
IsZero(x) == ~x.nan /\ x.hi = 0 /\ x.lo = 0
Negated(x) == IF x.nan THEN x ELSE [x EXCEPT !.neg = ~@]
\* whether the magnitude of x is at least that of y
MagnitudeGeq(x, y) == x.hi > y.hi \/ (x.hi = y.hi /\ x.lo >= y.lo)

\* x + y on ecma_number_t
NumberAdd(x, y) ==
  IF x.nan \/ y.nan THEN ECMA_NUMBER_NAN
  ELSE IF x.neg = y.neg
       THEN Float(x.neg, x.hi + y.hi + (x.lo + y.lo) \div Limb, (x.lo + y.lo) % Limb)
       ELSE LET big == IF MagnitudeGeq(x, y) THEN x ELSE y
                small == IF MagnitudeGeq(x, y) THEN y ELSE x
                borrow == IF big.lo < small.lo THEN 1 ELSE 0
                hi == big.hi - small.hi - borrow
                lo == big.lo + borrow * Limb - small.lo
            IN Float(IF hi = 0 /\ lo = 0 THEN FALSE ELSE big.neg, hi, lo)
\* x - y
NumberSubtract(x, y) == NumberAdd(x, Negated(y))
\* x * y, for magnitudes under 2^28
NumberMultiply(x, y) ==
  IF x.nan \/ y.nan THEN ECMA_NUMBER_NAN
  ELSE LET a1 == x.lo \div HalfLimb
           a0 == x.lo % HalfLimb
           b1 == y.lo \div HalfLimb
           b0 == y.lo % HalfLimb
           mid == a1 * b0 + a0 * b1
           low == a0 * b0 + (mid % HalfLimb) * HalfLimb
       IN Float(x.neg # y.neg, a1 * b1 + mid \div HalfLimb + low \div Limb, low % Limb)
\* x % y (ecma_op_number_remainder), for magnitudes under 2^28
NumberRemainder(x, y) ==
  IF x.nan \/ y.nan \/ IsZero(y) THEN ECMA_NUMBER_NAN
  ELSE Float(x.neg, 0, x.lo % y.lo)

\* the operation of an arithmetic opcode group on ecma_number_t
NumberArithmetic(op, x, y) ==
  CASE op = "ADD" -> NumberAdd(x, y)
    [] op = "SUB" -> NumberSubtract(x, y)
    [] op = "MUL" -> NumberMultiply(x, y)
    [] op = "MOD" -> NumberRemainder(x, y)

ecma_are_values_integer_numbers(l, r) == l.t = "int" /\ r.t = "int"
\* ecma_get_integer_from_value: the payload of an integer value
ecma_get_integer_from_value(v) == v.v
\* ecma_get_number_from_value
ecma_get_number_from_value(v) == IF v.t = "int" THEN NumberOfInteger(v.v) ELSE v
ECMA_IS_INTEGER_NUMBER(n) == ECMA_INTEGER_NUMBER_MIN <= n /\ n <= ECMA_INTEGER_NUMBER_MAX

\* ecma_make_int32_value: an integer value when the number fits one,
\* a float otherwise
ecma_make_int32_value(n) ==
  IF ECMA_IS_INTEGER_NUMBER(n) THEN IntValue(n) ELSE NumberOfInteger(n)
\* ecma_make_number_value: an integer value for an integer in range that
\* is not -0.0, a float otherwise
ecma_make_number_value(x) ==
  IF /\ ~x.nan /\ x.hi = 0 /\ ~(x.neg /\ x.lo = 0)
     /\ ECMA_IS_INTEGER_NUMBER(IF x.neg THEN -x.lo ELSE x.lo)
  THEN IntValue(IF x.neg THEN -x.lo ELSE x.lo)
  ELSE x
\* ecma_integer_multiply
ecma_integer_multiply(l, r) == IntValue(l * r)
\* the % of C on ecma_integer_value_t: the remainder has the dividend's sign
IntegerRemainder(l, r) == IF l < 0 THEN -(Abs(l) % Abs(r)) ELSE Abs(l) % Abs(r)

(***************************************************************************)
(* Property access: vm_op_get_value and vm_op_set_value.  The collaborators *)
(* that convert the property or touch an object leave their names in       *)
(* prop_path; those that can run code of the program can throw.            *)
(***************************************************************************)
Called(e, name) == [e EXCEPT !.prop_path = Append(@, name)]

\* the largest integer that has a direct string
ECMA_DIRECT_STRING_MAX_IMM == 134217727
\* ECMA_CREATE_DIRECT_STRING (ECMA_DIRECT_STRING_UINT, n)
DirectUintString(n) == [t |-> "name", v |-> n + MaxNames]

\* ecma_op_to_string: a new string, or for an object whatever its toString
\* and valueOf do
ecma_op_to_string(h, e, v) ==
  IF ecma_is_value_string(h, v)
  THEN {Outcome(v, CopyRef(h, v), Called(e, "to_string"), FALSE)}
  ELSE Created(h, Called(e, "to_string"), "string", 0)
       \cup (IF ecma_is_value_object(h, v)
             THEN Raised(h, Called(e, "to_string"), TRUE) ELSE {})

\* ecma_op_to_prop_name: the string itself with one more reference, or the
\* conversion of anything else to a string
ecma_op_to_prop_name(h, e, v) ==
  IF ecma_is_value_prop_name(h, v)
  THEN {Outcome(v, CopyRef(h, v), Called(e, "to_prop_name"), FALSE)}
  ELSE Created(h, Called(e, "to_prop_name"), "string", 0)
       \cup (IF ecma_is_value_object(h, v)
             THEN Raised(h, Called(e, "to_prop_name"), TRUE) ELSE {})

\* the name of a property that holds a number or a value to be converted
\* to one, and the values it can hold
NumberProperty == [t |-> "name", v |-> 0]
NumberPropertyValues ==
  {IntValue(n) : n \in {ECMA_INTEGER_NUMBER_MIN, ECMA_INTEGER_NUMBER_MIN + 1, -1, 0, 1,
                        ECMA_INTEGER_NUMBER_MAX - 1, ECMA_INTEGER_NUMBER_MAX}}
  \cup {Float(TRUE, 0, 0), NumberOfInteger(ECMA_INTEGER_NUMBER_MAX + 1),
        NumberOfInteger(ECMA_INTEGER_NUMBER_MIN - 1), ECMA_NUMBER_NAN,
        ECMA_VALUE_UNDEFINED, ECMA_VALUE_NULL, ECMA_VALUE_TRUE, Ptr(1), Ptr(2)}

\* the values a property of an ordinary object can hold
PropertyValues(name) ==
  IF name = NumberProperty THEN NumberPropertyValues
  ELSE {ECMA_VALUE_UNDEFINED, Ptr(1)}

(***************************************************************************)
(* The lookup cache: entries keyed by the object's cell and the property   *)
(* name, each with the type of the property it points to.                  *)
(***************************************************************************)
ECMA_PROPERTY_TYPE_NAMEDDATA == "NAMEDDATA"
ECMA_PROPERTY_TYPE_NAMEDACCESSOR == "NAMEDACCESSOR"
LcacheEntry(object, name, type) == [object |-> object.v, name |-> name, type |-> type]

\* ecma_lcache_lookup keyed by the name alone
LcacheLookupByName(e, object, name) ==
  {p \in e.lcache : p.name = name}

\* ecma_lcache_lookup: the entries of the object's property of that name
\* (none: NULL)
ecma_lcache_lookup(e, object, name) ==
  {p \in e.lcache : p.object = object.v /\ p.name = name}

\* ecma_lcache_insert, as the lookup of an own property of an object does
\* when it has found one
ecma_lcache_insert(h, e, object, name, type) ==
  IF e.JERRY_LCACHE /\ IsPtr(object) /\ NameIndex(name) \in h[object.v].names
  THEN [e EXCEPT !.lcache =
          {p \in @ : ~(p.object = object.v /\ p.name = name)}
          \cup {LcacheEntry(object, name, type)}]
  ELSE e

(***************************************************************************)
(* Proxy objects, and the native handlers the embedder installs as the     *)
(* traps of one: a proxy cell holds its target and its handler, the        *)
(* handler object its get and its set function.                            *)
(***************************************************************************)
ECMA_OBJECT_IS_PROXY(h, v) == IsPtr(v) /\ h[v.v].kind = "proxy"
ProxyTarget(h, proxy) == h[proxy.v].items[1]
ProxyHandler(h, proxy) == h[proxy.v].items[2]
GetTrap(h, handler) == h[handler.v].items[1]
SetTrap(h, handler) == h[handler.v].items[2]

\* jerry_create_number
jerry_create_number(n) == ecma_make_number_value(NumberOfInteger(n))
\* (int) jerry_get_number_value (value)
jerry_get_number_value(v) ==
  IF ecma_is_value_integer_number(v) THEN v.v
  ELSE IF v.neg THEN -(v.hi * Limb + v.lo) ELSE v.hi * Limb + v.lo

TrapCall(handler, args_p, ret) == [handler |-> handler, args |-> args_p, ret |-> ret]

\* handler_get: demo_value++; return jerry_create_number (demo_value)
handler_get(h, e, args_p) ==
  LET demo_value == e.demo_value + 1
  IN Outcome(jerry_create_number(demo_value), h,
             [e EXCEPT !.demo_value = demo_value,
                       !.traps = Append(@, TrapCall("handler_get", args_p,
                                                    jerry_create_number(demo_value)))],
             FALSE)

\* handler_set: demo_value = (int) jerry_get_number_value (args_p[2]);
\* return jerry_create_number (demo_value)
handler_set(h, e, args_p) ==
  LET demo_value == jerry_get_number_value(args_p[3])
  IN Outcome(jerry_create_number(demo_value), h,
             [e EXCEPT !.demo_value = demo_value,
                       !.traps = Append(@, TrapCall("handler_set", args_p,
                                                    jerry_create_number(demo_value)))],
             FALSE)

\* the call of an external function: its native handler runs
ecma_op_function_call_external(h, e, func, args_p) ==
  IF h[func.v].code = "handler_get" THEN handler_get(h, e, args_p)
  ELSE handler_set(h, e, args_p)

\* ecma_proxy_object_get: the get trap of the handler, called with the
\* target, the name and the receiver
ecma_proxy_object_get(h, e, proxy, name, receiver) ==
  {ecma_op_function_call_external(h, e, GetTrap(h, ProxyHandler(h, proxy)),
                                  <<ProxyTarget(h, proxy), name, receiver>>)}

\* ecma_proxy_object_set: the set trap of the handler, called with the
\* target, the name, the value and the receiver; the put has succeeded if
\* what the trap returns converts to true
ecma_proxy_object_set(h, e, proxy, name, value, receiver) ==
  {[r EXCEPT !.val = IF ecma_op_to_boolean(r.val) THEN ECMA_VALUE_TRUE
                     ELSE ECMA_VALUE_FALSE] :
     r \in {ecma_op_function_call_external(
               h, e, SetTrap(h, ProxyHandler(h, proxy)),
               <<ProxyTarget(h, proxy), name, value, receiver>>)}}

\* ecma_op_object_get: what the get trap of a proxy returns; for any other
\* object the value of the property, or what its getter throws
ecma_op_object_get(h, e, object, name) ==
  IF ECMA_OBJECT_IS_PROXY(h, object)
  THEN ecma_proxy_object_get(h, Called(e, "get"), object, name, object)
  ELSE {Outcome(v, CopyRef(h, v),
                ecma_lcache_insert(h, Called(e, "get"), object, name,
                                   ECMA_PROPERTY_TYPE_NAMEDDATA),
                FALSE) :
          v \in PropertyValues(name)}
       \cup {[r EXCEPT !.ctx = ecma_lcache_insert(h, @, object, name,
                                                 ECMA_PROPERTY_TYPE_NAMEDACCESSOR)] :
               r \in Raised(h, Called(e, "get"), TRUE)}

\* ecma_op_get_value_object_base: the same for any base that is not
\* undefined or null
ecma_op_get_value_object_base(h, e, base, name) ==
  ecma_op_object_get(h, e, base, name)

\* ecma_op_object_put_with_receiver: the object has the property
\* afterwards, or the put throws (a setter, a read-only property in strict
\* mode)
ecma_op_object_put_with_receiver(h, e, object, name, value, receiver) ==
  IF ECMA_OBJECT_IS_PROXY(h, object)
  THEN ecma_proxy_object_set(h, Called(e, "put"), object, name, value, receiver)
  ELSE
  {Outcome(ECMA_VALUE_TRUE,
           IF NameIndex(name) \in 1..MaxNames
           THEN [h EXCEPT ![object.v].names = @ \cup {NameIndex(name)}] ELSE h,
           Called(e, "put"), FALSE)}
  \cup Raised(h, Called(e, "put"), TRUE)

\* ecma_op_set_mutable_binding: the binding is written, or the write throws
ecma_op_set_mutable_binding(h, e, lex_env, name, value) ==
  {Outcome(ECMA_VALUE_EMPTY, h, Called(e, "set_mutable_binding"), FALSE)}
  \cup Raised(h, Called(e, "set_mutable_binding"), TRUE)

\* the property name vm_op_get_value has without a conversion: a small
\* non-negative integer or a string
HasPropertyName(h, property) ==
  \/ ecma_is_value_integer_number(property)
       /\ property.v >= 0 /\ property.v <= ECMA_DIRECT_STRING_MAX_IMM
  \/ ecma_is_value_string(h, property)

\* vm_op_get_value if it converted the property before it looked at the base
GetValueConvertingFirst(h, e, object, property) ==
  UNION {IF n.fail THEN {n}
         ELSE IF object \in {ECMA_VALUE_UNDEFINED, ECMA_VALUE_NULL}
              THEN ecma_raise_type_error(FreeRef(n.heap, n.val), n.ctx)
              ELSE {Outcome(g.val, FreeRef(g.heap, n.val), g.ctx, g.fail) :
                      g \in ecma_op_get_value_object_base(n.heap, n.ctx, object, n.val)} :
         n \in ecma_op_to_prop_name(h, [e EXCEPT !.prop_path = <<>>], property)}

\* ecma_get_object_type and ecma_op_array_is_fast_array: every array here
\* keeps its items in the fast layout
ECMA_OBJECT_TYPE_ARRAY == "array"
ecma_get_object_type(h, object) == h[object.v].kind
ecma_op_array_is_fast_array(h, object) == h[object.v].kind = "array"

\* the fast path of vm_op_get_value is taken: a small index below the
\* length of a fast array, and no hole in the slot
FastArraySlot(h, object, property) ==
  /\ ecma_is_value_integer_number(property)
  /\ property.v >= 0 /\ property.v <= ECMA_DIRECT_STRING_MAX_IMM
  /\ ecma_get_object_type(h, object) = ECMA_OBJECT_TYPE_ARRAY
  /\ ecma_op_array_is_fast_array(h, object)
  /\ property.v < Len(h[object.v].items)
  /\ h[object.v].items[property.v + 1] # ECMA_VALUE_ARRAY_HOLE

\* vm_op_get_value with a property name: from the lookup cache if it has
\* the property as a data property, else by ecma_op_object_get
GetValueByName(h, e, object, name) ==
  IF \E p \in ecma_lcache_lookup(e, object, name) :
       p.type = ECMA_PROPERTY_TYPE_NAMEDDATA
  THEN {Outcome(v, CopyRef(h, v), Called(e, "lcache"), FALSE) :
          v \in PropertyValues(name)}
  ELSE ecma_op_object_get(h, e, object, name)

\* vm_op_get_value: the property's value, or ECMA_VALUE_ERROR with the
\* exception pending
vm_op_get_value(h, e, object, property) ==
  LET e0 == [e EXCEPT !.prop_path = <<>>]
  IN IF ecma_is_value_object(h, object) /\ HasPropertyName(h, property)
     THEN IF FastArraySlot(h, object, property)
          THEN {Outcome(h[object.v].items[property.v + 1],
                        CopyRef(h, h[object.v].items[property.v + 1]),
                        Called(e0, "fast_array"), FALSE)}
          ELSE GetValueByName(h, e0, object,
                              IF ecma_is_value_integer_number(property)
                              THEN DirectUintString(property.v) ELSE property)
     ELSE IF object \in {ECMA_VALUE_UNDEFINED, ECMA_VALUE_NULL}
          THEN ecma_raise_type_error(h, e0)
          ELSE UNION {IF n.fail THEN {n}
                      ELSE {Outcome(g.val, FreeRef(g.heap, n.val), g.ctx, g.fail) :
                              g \in ecma_op_get_value_object_base(n.heap, n.ctx,
                                                                  object, n.val)} :
                      n \in ecma_op_to_prop_name(h, e0, property)}

\* the same without the release of the property that was converted
SetValuePropertyNameKept(h, e, property) ==
  IF ~ecma_is_value_prop_name(h, property)
  THEN ecma_op_to_string(h, e, property)
  ELSE {Outcome(property, h, e, FALSE)}

\* the property name vm_op_set_value uses: a property that is not one yet is
\* converted to a string and released, whether the conversion succeeded
\* or not
SetValuePropertyName(h, e, property) ==
  IF ~ecma_is_value_prop_name(h, property)
  THEN {Outcome(n.val, FreeRef(n.heap, property), n.ctx, n.fail) :
          n \in ecma_op_to_string(h, e, property)}
  ELSE {Outcome(property, h, e, FALSE)}

\* vm_op_set_value: ECMA_VALUE_ERROR with the exception pending, or the
\* result of the put; base and property are released on the way
vm_op_set_value(h, e, base, property, value) ==
  LET e0 == [e EXCEPT !.prop_path = <<>>]
  IN IF ~ecma_is_value_object(h, base)
     THEN IF base \in {ECMA_VALUE_NULL, ECMA_VALUE_UNDEFINED}
          THEN {Outcome(r.val, FreeRef(r.heap, property), r.ctx, TRUE) :
                  r \in ecma_raise_type_error(h, e0)}
          ELSE UNION {IF n.fail
                      THEN {Outcome(ECMA_VALUE_ERROR, FreeRef(n.heap, base), n.ctx, TRUE)}
                      ELSE UNION {{Outcome(r.val,
                                           FreeRef(FreeRef(FreeRef(r.heap, base), o.val),
                                                   n.val),
                                           r.ctx, r.fail) :
                                     r \in ecma_op_object_put_with_receiver(
                                             o.heap, o.ctx, o.val, n.val, value, base)} :
                                  o \in ecma_op_to_object(n.heap, n.ctx, base)} :
                      n \in SetValuePropertyName(h, e0, property)}
     ELSE UNION {IF n.fail
                 THEN {Outcome(ECMA_VALUE_ERROR, FreeRef(n.heap, base), n.ctx, TRUE)}
                 ELSE {Outcome(r.val, FreeRef(FreeRef(r.heap, base), n.val),
                               r.ctx, r.fail) :
                         r \in (IF ~ecma_is_lexical_environment(h, base)
                                THEN ecma_op_object_put_with_receiver(
                                       n.heap, n.ctx, base, n.val, value, base)
                                ELSE ecma_op_set_mutable_binding(
                                       n.heap, n.ctx, base, n.val, value))} :
                 n \in SetValuePropertyName(h, e0, property)}

(***************************************************************************)
(* Routing of an opcode's result (the code after the opcode switch).       *)
(***************************************************************************)
\* ecma_op_put_value_lex_env_base: the binding is written or the put throws
PutValueLexEnvBase(h, e) ==
  {Outcome(ECMA_VALUE_EMPTY, h, e, FALSE)} \cup Raised(h, e, TRUE)

\* VM_OC_PUT_IDENT: the frame and heap after the put, the result still to be
\* routed (or ECMA_VALUE_ERROR), and whether the put left through goto error
Put(f, h, e, res, fail) == [f |-> f, heap |-> h, ctx |-> e, res |-> res, fail |-> fail]

PutIdent(f, h, e, res, ins) ==
  IF ins.x <= Header.register_end
  THEN {Put([f EXCEPT !.regs[ins.x] = res],
            IF ins.put \cap {"STACK", "BLOCK"} # {}
            THEN CopyRef(FreeRef(h, f.regs[ins.x]), res)
            ELSE FreeRef(h, f.regs[ins.x]),
            e, res, FALSE)}
  ELSE {IF o.fail
        THEN Put(f, FreeRef(o.heap, res), o.ctx, ECMA_VALUE_ERROR, TRUE)
        ELSE Put(f,
                 IF ins.put \cap {"STACK", "BLOCK"} = {} THEN FreeRef(o.heap, res)
                 ELSE o.heap,
                 o.ctx, res, FALSE) :
          o \in PutValueLexEnvBase(h, e)}

\* VM_OC_PUT_REFERENCE with the register written over its previous content
PutReferenceContentKept(f, h, e, res, ins) ==
  LET property == StackTop(f, 1)
      base == StackTop(f, 2)
      f1 == PopN(f, 2)
  IN IF base = ECMA_VALUE_REGISTER_REF
     THEN {Put([f1 EXCEPT !.regs[property.v] = res],
               IF ins.put \cap {"STACK", "BLOCK"} # {} THEN CopyRef(h, res) ELSE h,
               e, res, FALSE)}
     ELSE {IF ECMA_IS_VALUE_ERROR(o.val)
           THEN Put(f1, FreeRef(o.heap, res), o.ctx, ECMA_VALUE_ERROR, TRUE)
           ELSE Put(f1,
                    IF ins.put \cap {"STACK", "BLOCK"} = {} THEN FreeRef(o.heap, res)
                    ELSE o.heap,
                    o.ctx, res, FALSE) :
             o \in vm_op_set_value(h, e, base, property, res)}

\* VM_OC_PUT_REFERENCE: the property and the base leave the stack; a
\* register reference is written directly, anything else by vm_op_set_value
PutReference(f, h, e, res, ins) ==
  LET property == StackTop(f, 1)
      base == StackTop(f, 2)
      f1 == PopN(f, 2)
  IN IF base = ECMA_VALUE_REGISTER_REF
     THEN {Put([f1 EXCEPT !.regs[property.v] = res],
               IF ins.put \cap {"STACK", "BLOCK"} # {}
               THEN CopyRef(FreeRef(h, f.regs[property.v]), res)
               ELSE FreeRef(h, f.regs[property.v]),
               e, res, FALSE)}
     ELSE {IF ECMA_IS_VALUE_ERROR(o.val)
           THEN Put(f1, FreeRef(o.heap, res), o.ctx, ECMA_VALUE_ERROR, TRUE)
           ELSE Put(f1,
                    IF ins.put \cap {"STACK", "BLOCK"} = {} THEN FreeRef(o.heap, res)
                    ELSE o.heap,
                    o.ctx, res, FALSE) :
             o \in vm_op_set_value(h, e, base, property, res)}

\* VM_OC_PUT_STACK / VM_OC_PUT_BLOCK
PutStackOrBlock(f, h, res, ins) ==
  IF "STACK" \in ins.put THEN [f |-> PushN(f, <<res>>), heap |-> h]
  ELSE IF "BLOCK" \in ins.put
       THEN [f |-> [f EXCEPT !.block_result = res], heap |-> FreeRef(h, f.block_result)]
       ELSE [f |-> f, heap |-> h]

\* the whole tail: put-ident, put-stack or put-block, free_both_values
PutResult(f, h, e, l, r, res, ins) ==
  \E p \in (IF "IDENT" \in ins.put THEN PutIdent(f, h, e, res, ins)
            ELSE IF "REFERENCE" \in ins.put THEN PutReference(f, h, e, res, ins)
            ELSE {Put(f, h, e, res, FALSE)}) :
    IF p.fail THEN GotoError(p.f, p.heap, p.ctx, l, r, p.res)
    ELSE FreeBothValues(PutStackOrBlock(p.f, p.heap, p.res, ins).f,
                        PutStackOrBlock(p.f, p.heap, p.res, ins).heap,
                        p.ctx, l, r)

VM_OC_ASSIGN ==
  /\ At("ASSIGN")
  /\ \E o \in Fetch(Top, heap, jcontext, CurIns(Top)) :
       IF o.fail THEN FetchFailed(o)
       ELSE PutResult(Advance(o.f), o.heap, o.ctx,
                      ECMA_VALUE_UNDEFINED, o.right, o.left, CurIns(Top))

VM_OC_PROP_GET ==
  /\ At("PROP_GET")
  /\ \E o \in Fetch(Top, heap, jcontext, CurIns(Top)) :
       IF o.fail THEN FetchFailed(o)
       ELSE \E g \in vm_op_get_value(o.heap, o.ctx, o.left, o.right) :
              IF g.fail
              THEN GotoError(o.f, g.heap, g.ctx, o.left, o.right, ECMA_VALUE_ERROR)
              ELSE FreeBothValues(PushN(Advance(o.f), <<g.val>>), g.heap, g.ctx,
                                  o.left, o.right)

(***************************************************************************)
(* typeof.                                                                 *)
(***************************************************************************)
\* a magic string: a string value that owns no reference
MagicString(name) == [t |-> "magic", v |-> name]

\* opfunc_typeof
opfunc_typeof(h, v) ==
  CASE v = ECMA_VALUE_UNDEFINED -> MagicString("undefined")
    [] v = ECMA_VALUE_NULL -> MagicString("object")
    [] v \in {ECMA_VALUE_TRUE, ECMA_VALUE_FALSE} -> MagicString("boolean")
    [] v.t = "int" -> MagicString("number")
    [] v.t = "magic" -> MagicString("string")
    [] IsPtr(v) /\ h[v.v].kind = "string" -> MagicString("string")
    [] IsPtr(v) /\ h[v.v].kind \in {"function", "native"} -> MagicString("function")
    [] OTHER -> MagicString("object")

\* ecma_op_get_value_lex_env_base: the value of the binding, or an error
\* raised while reading it (base is TRUE: an environment has the binding),
\* or a ReferenceError with *ref_base_lex_env_p left NULL (base is FALSE)
ecma_op_get_value_lex_env_base(h, e, name) ==
  IF name \in UnboundNames
  THEN {[val |-> o.val, heap |-> o.heap, ctx |-> o.ctx, fail |-> TRUE, base |-> FALSE] :
          o \in ecma_raise_reference_error(h, e)}
  ELSE {[val |-> v, heap |-> CopyRef(h, v), ctx |-> e, fail |-> FALSE, base |-> TRUE] :
          v \in IdentValues(name)}
       \cup (IF IdentMayFail(name)
             THEN {[val |-> o.val, heap |-> o.heap, ctx |-> o.ctx, fail |-> TRUE,
                    base |-> TRUE] : o \in Raised(h, e, TRUE)}
             ELSE {})

\* jcontext_release_exception: the pending exception is dropped
jcontext_release_exception(h, e) ==
  [heap |-> FreeRef(h, e.error_value), ctx |-> jcontext_take_exception(e)]

\* typeof of an identifier that lets every error of the lookup through
TypeofOperandUnboundThrows(f, h, e, literal_index) ==
  IF literal_index <= Header.register_end
  THEN {Outcome(f.regs[literal_index], CopyRef(h, f.regs[literal_index]), e, FALSE)}
  ELSE {Outcome(o.val, o.heap, o.ctx, o.fail) :
          o \in ecma_op_get_value_lex_env_base(h, e, Literals[literal_index].name)}

\* the value typeof is applied to when the operand is an identifier
TypeofOperand(f, h, e, literal_index) ==
  IF literal_index <= Header.register_end
  THEN {Outcome(f.regs[literal_index], CopyRef(h, f.regs[literal_index]), e, FALSE)}
  ELSE {IF ~o.base
        THEN Outcome(ECMA_VALUE_UNDEFINED, jcontext_release_exception(o.heap, o.ctx).heap,
                     jcontext_release_exception(o.heap, o.ctx).ctx, FALSE)
        ELSE Outcome(o.val, o.heap, o.ctx, o.fail) :
          o \in ecma_op_get_value_lex_env_base(h, e, Literals[literal_index].name)}

\* case VM_OC_TYPEOF: the result is pushed, then free_left_value
TypeofPush(f, h, e, l) ==
  FreeBothValues(PushN(f, <<opfunc_typeof(h, l)>>), h, e, l, ECMA_VALUE_UNDEFINED)

VM_OC_TYPEOF ==
  /\ At("TYPEOF")
  /\ \E o \in Fetch(Top, heap, jcontext, CurIns(Top)) :
       TypeofPush(Advance(o.f), o.heap, o.ctx, o.left)

VM_OC_TYPEOF_IDENT ==
  /\ At("TYPEOF_IDENT")
  /\ \E o \in TypeofOperand(Top, heap, jcontext, CurIns(Top).x) :
       IF o.fail
       THEN GotoError(Top, o.heap, o.ctx, ECMA_VALUE_UNDEFINED,
                      ECMA_VALUE_UNDEFINED, ECMA_VALUE_ERROR)
       ELSE TypeofPush(Advance(Top), o.heap, o.ctx, o.val)

\* the identifier's value with what a later put needs below it: a register
\* reference and the register's index, or the environment that binds the
\* name (the global one here) and the name
VM_OC_IDENT_REFERENCE ==
  /\ At("IDENT_REFERENCE")
  /\ LET literal_index == CurIns(Top).x
     IN IF literal_index <= Header.register_end
        THEN Continue(PushN(Advance(Top),
                            <<ECMA_VALUE_REGISTER_REF, IntValue(literal_index),
                              Top.regs[literal_index]>>),
                      CopyRef(heap, Top.regs[literal_index]), jcontext)
        ELSE \E o \in ecma_op_get_value_lex_env_base(
                        heap, jcontext, Literals[literal_index].name) :
               IF o.fail
               THEN GotoError(Top, o.heap, o.ctx, left_value, right_value,
                              ECMA_VALUE_ERROR)
               ELSE Continue(PushN(Advance(Top),
                                   <<GlobalLexEnv,
                                     IdentName(Literals[literal_index].name), o.val>>),
                             CopyRef(o.heap, GlobalLexEnv), o.ctx)

\* ecma_op_to_number: the number itself, the number of a primitive, or for
\* an object whatever its valueOf and toString do
ecma_op_to_number(h, e, v) ==
  IF ecma_is_value_number(v) THEN {Outcome(v, h, e, FALSE)}
  ELSE IF v = ECMA_VALUE_TRUE THEN {Outcome(IntValue(1), h, e, FALSE)}
  ELSE IF v \in {ECMA_VALUE_NULL, ECMA_VALUE_FALSE} THEN {Outcome(IntValue(0), h, e, FALSE)}
  ELSE {Outcome(ECMA_NUMBER_NAN, h, e, FALSE)}
       \cup (IF ecma_is_value_object(h, v) THEN Raised(h, e, TRUE) ELSE {})

\* do_number_arithmetic, opfunc_addition: for two numbers the operation on
\* ecma_number_t; otherwise the operands are converted first, which can
\* throw, and the result here is NaN
do_number_arithmetic(h, e, l, r, op) ==
  IF ecma_is_value_number(l) /\ ecma_is_value_number(r)
  THEN {Outcome(ecma_make_number_value(
                  NumberArithmetic(op, ecma_get_number_from_value(l),
                                   ecma_get_number_from_value(r))),
                h, e, FALSE)}
  ELSE {Outcome(ECMA_NUMBER_NAN, h, e, FALSE)} \cup Raised(h, e, TRUE)

(***************************************************************************)
(* Opcode groups: arithmetic.                                              *)
(***************************************************************************)
\* the result is pushed and the next opcode follows (`continue')
PushNumber(f, h, e, v, int_path) ==
  Continue(PushN(f, <<v>>), h, [e EXCEPT !.int_path = int_path])

\* the paths ADD, SUB and MUL share once the integer path is not taken:
\* float with number, integer with float, and the general operation
FloatPaths(o, op) ==
  IF ecma_is_value_float_number(o.left) /\ ecma_is_value_number(o.right)
  THEN PushNumber(Advance(o.f), o.heap, o.ctx,
                  NumberArithmetic(op, o.left, ecma_get_number_from_value(o.right)),
                  FALSE)
  ELSE IF ecma_is_value_float_number(o.right) /\ ecma_is_value_integer_number(o.left)
  THEN PushNumber(Advance(o.f), o.heap, o.ctx,
                  NumberArithmetic(op, NumberOfInteger(o.left.v), o.right), FALSE)
  ELSE \E a \in do_number_arithmetic(o.heap, o.ctx, o.left, o.right, op) :
         IF a.fail
         THEN GotoError(o.f, a.heap, a.ctx, o.left, o.right, ECMA_VALUE_ERROR)
         ELSE FreeBothValues(PushN(Advance(o.f), <<a.val>>), a.heap,
                             [a.ctx EXCEPT !.int_path = FALSE], o.left, o.right)

VM_OC_ADD ==
  /\ At("ADD")
  /\ \E o \in Fetch(Top, heap, jcontext, CurIns(Top)) :
       IF ecma_are_values_integer_numbers(o.left, o.right)
       THEN PushNumber(Advance(o.f), o.heap, o.ctx,
                       ecma_make_int32_value(o.left.v + o.right.v), TRUE)
       ELSE FloatPaths(o, "ADD")

VM_OC_SUB ==
  /\ At("SUB")
  /\ \E o \in Fetch(Top, heap, jcontext, CurIns(Top)) :
       IF ecma_are_values_integer_numbers(o.left, o.right)
       THEN PushNumber(Advance(o.f), o.heap, o.ctx,
                       ecma_make_int32_value(o.left.v - o.right.v), TRUE)
       ELSE FloatPaths(o, "SUB")

\* the test of MUL without its two comparisons with zero
MultiplyFastWithZero(left_integer, right_integer) ==
  /\ -ECMA_INTEGER_MULTIPLY_MAX <= left_integer
  /\ left_integer <= ECMA_INTEGER_MULTIPLY_MAX
  /\ -ECMA_INTEGER_MULTIPLY_MAX <= right_integer
  /\ right_integer <= ECMA_INTEGER_MULTIPLY_MAX

\* the test that guards the integer path of MUL (left_value != 0 compares
\* the tagged word: the integer value 0 is the word 0)
MultiplyFast(left_integer, right_integer) ==
  /\ -ECMA_INTEGER_MULTIPLY_MAX <= left_integer
  /\ left_integer <= ECMA_INTEGER_MULTIPLY_MAX
  /\ -ECMA_INTEGER_MULTIPLY_MAX <= right_integer
  /\ right_integer <= ECMA_INTEGER_MULTIPLY_MAX
  /\ IntValue(left_integer) # IntValue(0)
  /\ IntValue(right_integer) # IntValue(0)

VM_OC_MUL ==
  /\ At("MUL")
  /\ \E o \in Fetch(Top, heap, jcontext, CurIns(Top)) :
       IF ecma_are_values_integer_numbers(o.left, o.right)
       THEN IF MultiplyFast(o.left.v, o.right.v)
            THEN PushNumber(Advance(o.f), o.heap, o.ctx,
                            ecma_integer_multiply(o.left.v, o.right.v), TRUE)
            ELSE PushNumber(Advance(o.f), o.heap, o.ctx,
                            ecma_make_number_value(
                              NumberMultiply(NumberOfInteger(o.left.v),
                                             NumberOfInteger(o.right.v))), FALSE)
       ELSE FloatPaths(o, "MUL")

\* the test that guards the integer path of MOD
ModuloFast(left_integer, right_integer) ==
  /\ right_integer # 0
  /\ (IntegerRemainder(left_integer, right_integer) # 0 \/ left_integer >= 0)

VM_OC_MOD ==
  /\ At("MOD")
  /\ \E o \in Fetch(Top, heap, jcontext, CurIns(Top)) :
       IF ecma_are_values_integer_numbers(o.left, o.right)
          /\ ModuloFast(o.left.v, o.right.v)
       THEN PushNumber(Advance(o.f), o.heap, o.ctx,
                       IntValue(IntegerRemainder(o.left.v, o.right.v)), TRUE)
       ELSE \E a \in do_number_arithmetic(o.heap, o.ctx, o.left, o.right, "MOD") :
              IF a.fail
              THEN GotoError(o.f, a.heap, a.ctx, o.left, o.right, ECMA_VALUE_ERROR)
              ELSE FreeBothValues(PushN(Advance(o.f), <<a.val>>), a.heap,
                                  [a.ctx EXCEPT !.int_path = FALSE], o.left, o.right)

\* the number of tag bits of a direct value
ECMA_DIRECT_SHIFT == 4

(***************************************************************************)
(* Opcode groups: bitwise operators.  An ecma_value_t is a word of 32      *)
(* bits, here the function from the bit positions 0..31 to the bits; the   *)
(* low ECMA_DIRECT_SHIFT bits are the tag, which is 0 for an integer       *)
(* value, and the bits above them are its payload in two's complement.     *)
(***************************************************************************)
\* bit j of the 32-bit two's complement of x
Int32Bit(x, j) == IF j >= 31 THEN (IF x < 0 THEN 1 ELSE 0) ELSE (x \div 2^j) % 2
\* the word of an int32_t
Int32Word(x) == [j \in 0..31 |-> Int32Bit(x, j)]
\* the number the bits from .. to of w spell
RECURSIVE WordField(_, _, _)
WordField(w, from, to) ==
  IF from > to THEN 0 ELSE w[from] + 2 * WordField(w, from + 1, to)
\* (int32_t) w
WordInt32(w) == (IF w[31] = 1 THEN -(2^30) - 2^30 ELSE 0) + WordField(w, 0, 30)
\* w << n and the two w >> n, on 32 bits
WordShiftLeft(w, n) == [j \in 0..31 |-> IF j < n THEN 0 ELSE w[j - n]]
WordShiftRight(w, n) == [j \in 0..31 |-> IF j + n > 31 THEN w[31] ELSE w[j + n]]
WordShiftRightUnsigned(w, n) == [j \in 0..31 |-> IF j + n > 31 THEN 0 ELSE w[j + n]]
\* ~ECMA_DIRECT_TYPE_MASK
NotDirectTypeMask == [j \in 0..31 |-> IF j < ECMA_DIRECT_SHIFT THEN 0 ELSE 1]
WordOr(a, b) == [j \in 0..31 |-> IF a[j] = 1 THEN 1 ELSE b[j]]
WordAnd(a, b) == [j \in 0..31 |-> a[j] * b[j]]
WordXor(a, b) == [j \in 0..31 |-> (a[j] + b[j]) % 2]
WordNot(a) == [j \in 0..31 |-> 1 - a[j]]

\* the word of an integer value
ValueWord(v) == WordShiftLeft(Int32Word(v.v), ECMA_DIRECT_SHIFT)
\* the value a word is: an integer value when its tag bits are those of
\* one (ecma_is_value_integer_number, ecma_get_integer_from_value), and
\* some other value otherwise
WordValue(w) ==
  IF WordField(w, 0, ECMA_DIRECT_SHIFT - 1) = 0
  THEN IntValue(WordInt32(WordShiftRight(w, ECMA_DIRECT_SHIFT)))
  ELSE [t |-> "word", v |-> WordInt32(w)]
\* ecma_make_integer_value: the integer shifted into the payload
ecma_make_integer_value(n) == WordValue(WordShiftLeft(Int32Word(n), ECMA_DIRECT_SHIFT))
\* ecma_make_uint32_value of the uint32_t w: an integer value up to
\* ECMA_INTEGER_NUMBER_MAX, a float above it
ecma_make_uint32_value(w) ==
  IF WordField(w, 27, 31) = 0
  THEN ecma_make_integer_value(WordInt32(w))
  ELSE Float(FALSE, WordField(w, 28, 31), WordField(w, 0, 27))
\* right_integer & 0x1f
ShiftCount(right_integer) == WordField(Int32Word(right_integer), 0, 4)

\* ecma_number_to_int32 / ecma_number_to_uint32 as a word: 0 for NaN, else
\* the integer modulo 2^32
NumberWord(x) ==
  LET m == [j \in 0..31 |-> IF j < 28 THEN Int32Bit(x.lo, j) ELSE Int32Bit(x.hi, j - 28)]
  IN IF x.nan THEN Int32Word(0)
     ELSE IF ~x.neg \/ WordField(m, 0, 30) = 0 THEN m
     ELSE Int32Word(-WordInt32(m))

\* the operation of do_number_bitwise_logic on the words of two numbers
BitwiseLogic(op, l, r) ==
  CASE op = "BIT_OR" -> WordOr(l, r)
    [] op = "BIT_XOR" -> WordXor(l, r)
    [] op = "BIT_AND" -> WordAnd(l, r)
    [] op = "BIT_NOT" -> WordNot(l)
    [] op = "LEFT_SHIFT" -> WordShiftLeft(l, WordField(r, 0, 4))
    [] op = "RIGHT_SHIFT" -> WordShiftRight(l, WordField(r, 0, 4))
    [] op = "UNS_RIGHT_SHIFT" -> WordShiftRightUnsigned(l, WordField(r, 0, 4))

\* do_number_bitwise_logic: both operands are converted to numbers, which
\* can throw, and the result of the operation on their 32-bit integers is
\* made a number value
do_number_bitwise_logic(h, e, op, l, r) ==
  UNION {
    IF a.fail THEN {a}
    ELSE {IF b.fail THEN b
          ELSE LET w == BitwiseLogic(op, NumberWord(ecma_get_number_from_value(a.val)),
                                     NumberWord(ecma_get_number_from_value(b.val)))
               IN Outcome(IF op = "UNS_RIGHT_SHIFT" THEN ecma_make_uint32_value(w)
                          ELSE ecma_make_int32_value(WordInt32(w)),
                          b.heap, b.ctx, FALSE)
          : b \in ecma_op_to_number(a.heap, a.ctx, r)}
    : a \in ecma_op_to_number(h, e, l)}

\* the path the bitwise opcodes share once the operands are not integers,
\* up to free_both_values or, for the one operand of BIT_NOT,
\* free_left_value
BitwiseLogicPath(o, op, right) ==
  \E a \in do_number_bitwise_logic(o.heap, o.ctx, op, o.left, right) :
    IF a.fail
    THEN GotoError(o.f, a.heap, a.ctx, o.left, o.right, ECMA_VALUE_ERROR)
    ELSE IF op = "BIT_NOT"
    THEN FreeLeftValueOnly(PushN(Advance(o.f), <<a.val>>), a.heap,
                           [a.ctx EXCEPT !.int_path = FALSE], o.left, o.right)
    ELSE FreeBothValues(PushN(Advance(o.f), <<a.val>>), a.heap,
                        [a.ctx EXCEPT !.int_path = FALSE], o.left, o.right)

\* the integer path of BIT_NOT without the mask that clears the tag bits
BitNotUnmasked(left) == WordNot(left)

\* the integer path of BIT_NOT: (~left_value) & ~ECMA_DIRECT_TYPE_MASK
BitNot(left) == WordAnd(WordNot(left), NotDirectTypeMask)

VM_OC_BIT_NOT ==
  /\ At("BIT_NOT")
  /\ \E o \in Fetch(Top, heap, jcontext, CurIns(Top)) :
       IF ecma_is_value_integer_number(o.left)
       THEN FreeLeftValueOnly(PushN(Advance(o.f), <<WordValue(BitNot(ValueWord(o.left)))>>),
                              o.heap, [o.ctx EXCEPT !.int_path = TRUE], o.left, o.right)
       ELSE BitwiseLogicPath(o, "BIT_NOT", o.left)

VM_OC_BIT_OR ==
  /\ At("BIT_OR")
  /\ \E o \in Fetch(Top, heap, jcontext, CurIns(Top)) :
       IF ecma_are_values_integer_numbers(o.left, o.right)
       THEN PushNumber(Advance(o.f), o.heap, o.ctx,
                       WordValue(WordOr(ValueWord(o.left), ValueWord(o.right))), TRUE)
       ELSE BitwiseLogicPath(o, "BIT_OR", o.right)

VM_OC_BIT_XOR ==
  /\ At("BIT_XOR")
  /\ \E o \in Fetch(Top, heap, jcontext, CurIns(Top)) :
       IF ecma_are_values_integer_numbers(o.left, o.right)
       THEN PushNumber(Advance(o.f), o.heap, o.ctx,
                       WordValue(WordAnd(WordXor(ValueWord(o.left), ValueWord(o.right)),
                                         NotDirectTypeMask)), TRUE)
       ELSE BitwiseLogicPath(o, "BIT_XOR", o.right)

VM_OC_BIT_AND ==
  /\ At("BIT_AND")
  /\ \E o \in Fetch(Top, heap, jcontext, CurIns(Top)) :
       IF ecma_are_values_integer_numbers(o.left, o.right)
       THEN PushNumber(Advance(o.f), o.heap, o.ctx,
                       WordValue(WordAnd(ValueWord(o.left), ValueWord(o.right))), TRUE)
       ELSE BitwiseLogicPath(o, "BIT_AND", o.right)

\* left_integer << (right_integer & 0x1f) as int32_t; the compilers this is
\* built with define the shift of a signed integer as the shift of its
\* two's complement
LeftShift(left_integer, right_integer) ==
  WordInt32(WordShiftLeft(Int32Word(left_integer), ShiftCount(right_integer)))

VM_OC_LEFT_SHIFT ==
  /\ At("LEFT_SHIFT")
  /\ \E o \in Fetch(Top, heap, jcontext, CurIns(Top)) :
       IF ecma_are_values_integer_numbers(o.left, o.right)
       THEN LET left_integer == ecma_get_integer_from_value(o.left)
                right_integer == ecma_get_integer_from_value(o.right)
            IN PushNumber(Advance(o.f), o.heap, o.ctx,
                          ecma_make_int32_value(LeftShift(left_integer, right_integer)),
                          TRUE)
       ELSE BitwiseLogicPath(o, "LEFT_SHIFT", o.right)

VM_OC_RIGHT_SHIFT ==
  /\ At("RIGHT_SHIFT")
  /\ \E o \in Fetch(Top, heap, jcontext, CurIns(Top)) :
       IF ecma_are_values_integer_numbers(o.left, o.right)
       THEN LET left_integer == ecma_get_integer_from_value(o.left)
                right_integer == ecma_get_integer_from_value(o.right)
            IN PushNumber(Advance(o.f), o.heap, o.ctx,
                          ecma_make_integer_value(
                            WordInt32(WordShiftRight(Int32Word(left_integer),
                                                     ShiftCount(right_integer)))),
                          TRUE)
       ELSE BitwiseLogicPath(o, "RIGHT_SHIFT", o.right)

VM_OC_UNS_RIGHT_SHIFT ==
  /\ At("UNS_RIGHT_SHIFT")
  /\ \E o \in Fetch(Top, heap, jcontext, CurIns(Top)) :
       IF ecma_are_values_integer_numbers(o.left, o.right)
       THEN LET left_uint32 == Int32Word(ecma_get_integer_from_value(o.left))
                right_integer == ecma_get_integer_from_value(o.right)
            IN PushNumber(Advance(o.f), o.heap, o.ctx,
                          ecma_make_uint32_value(
                            WordShiftRightUnsigned(left_uint32, ShiftCount(right_integer))),
                          TRUE)
       ELSE BitwiseLogicPath(o, "UNS_RIGHT_SHIFT", o.right)

(***************************************************************************)
(* Opcode groups: increment and decrement.                                 *)
(***************************************************************************)
VM_OC_DECREMENT_OPERATOR_FLAG == "VM_OC_DECREMENT_OPERATOR_FLAG"
VM_OC_POST_INCR_DECR_OPERATOR_FLAG == "VM_OC_POST_INCR_DECR_OPERATOR_FLAG"
VM_OC_IDENT_INCR_DECR_OPERATOR_FLAG == "VM_OC_IDENT_INCR_DECR_OPERATOR_FLAG"
\* VM_OC_GROUP_GET_INDEX (opcode_data) - VM_OC_PROP_PRE_INCR
OpcodeFlags(group) ==
  (IF group \in {"PRE_DECR", "POST_DECR", "PROP_PRE_DECR", "PROP_POST_DECR"}
   THEN {VM_OC_DECREMENT_OPERATOR_FLAG} ELSE {})
  \cup (IF group \in {"POST_INCR", "POST_DECR", "PROP_POST_INCR", "PROP_POST_DECR"}
        THEN {VM_OC_POST_INCR_DECR_OPERATOR_FLAG} ELSE {})
  \cup (IF group \in {"PRE_INCR", "PRE_DECR", "POST_INCR", "POST_DECR"}
        THEN {VM_OC_IDENT_INCR_DECR_OPERATOR_FLAG} ELSE {})

\* the word of an integer value, which has no tag bit set, as
\* ecma_integer_value_t, and the integer value of such a word
IntegerWord(v) == v.v * 2^ECMA_DIRECT_SHIFT
IntegerOfWord(w) == IntValue(w \div 2^ECMA_DIRECT_SHIFT)
ECMA_INTEGER_NUMBER_MAX_SHIFTED == ECMA_INTEGER_NUMBER_MAX * 2^ECMA_DIRECT_SHIFT
ECMA_INTEGER_NUMBER_MIN_SHIFTED == ECMA_INTEGER_NUMBER_MIN * 2^ECMA_DIRECT_SHIFT
\* a + b on 32-bit two's complement words that are multiples of
\* 2^ECMA_DIRECT_SHIFT
WordAdd(a, b) ==
  ((((a \div 2^ECMA_DIRECT_SHIFT + b \div 2^ECMA_DIRECT_SHIFT) + 2^27) % 2^28) - 2^27)
  * 2^ECMA_DIRECT_SHIFT

\* int_increase without the comparison with the shifted bounds
IntIncreaseUnchecked(int_value, opcode_flags) ==
  IF VM_OC_DECREMENT_OPERATOR_FLAG \in opcode_flags
  THEN -(2^ECMA_DIRECT_SHIFT) ELSE 2^ECMA_DIRECT_SHIFT

\* int_increase: one step in the word of an integer value, or 0 at the bound
IntIncrease(int_value, opcode_flags) ==
  IF VM_OC_DECREMENT_OPERATOR_FLAG \in opcode_flags
  THEN IF int_value > ECMA_INTEGER_NUMBER_MIN_SHIFTED
       THEN -(2^ECMA_DIRECT_SHIFT) ELSE 0
  ELSE IF int_value < ECMA_INTEGER_NUMBER_MAX_SHIFTED
       THEN 2^ECMA_DIRECT_SHIFT ELSE 0

\* ecma_update_float_number: the number as a value, in the float's place
ecma_update_float_number(float_value, new_number) == ecma_make_number_value(new_number)

\* the unmodified number value a postfix operator leaves on the stack (for
\* the property form below the reference) or in block_result; the put flag
\* it served is cleared
PostfixDelivered(f, h, res, ins) ==
  IF VM_OC_POST_INCR_DECR_OPERATOR_FLAG \notin OpcodeFlags(ins.group)
  THEN [f |-> f, heap |-> h, put |-> ins.put]
  ELSE IF "STACK" \in ins.put
  THEN [f |-> IF VM_OC_IDENT_INCR_DECR_OPERATOR_FLAG \in OpcodeFlags(ins.group)
              THEN PushN(f, <<res>>)
              ELSE [f EXCEPT !.stack = SubSeq(@, 1, Len(@) - 2) \o <<res>>
                                       \o SubSeq(@, Len(@) - 1, Len(@))],
        heap |-> h, put |-> ins.put \ {"STACK"}]
  ELSE IF "BLOCK" \in ins.put
  THEN [f |-> [f EXCEPT !.block_result = res], heap |-> FreeRef(h, f.block_result),
        put |-> ins.put \ {"BLOCK"}]
  ELSE [f |-> f, heap |-> h, put |-> ins.put]

\* the put of the new value res, which the context remembers
IncrDecrPut(d, e, l, res, ins, int_path) ==
  PutResult(d.f, d.heap, [e EXCEPT !.put_value = res, !.int_path = int_path],
            l, ECMA_VALUE_UNDEFINED, res, [ins EXCEPT !.put = d.put])

\* the number path: result holds a number value, left_value is l
IncrDecrNumber(f, h, e, l, res, ins) ==
  LET increase == IF VM_OC_DECREMENT_OPERATOR_FLAG \in OpcodeFlags(ins.group)
                  THEN NumberOfInteger(-1) ELSE NumberOfInteger(1)
      result_number == ecma_get_number_from_value(res)
      sum == NumberAdd(result_number, increase)
  IN IncrDecrPut(PostfixDelivered(f, h, res, ins), e, l,
                 IF ecma_is_value_integer_number(res)
                 THEN ecma_make_number_value(sum)
                 ELSE ecma_update_float_number(res, sum),
                 ins, FALSE)

\* VM_OC_PRE_INCR .. VM_OC_POST_DECR from the value left_value holds; f is
\* the frame with byte_code_p after the opcode's literal
IncrDecr(f, h, e, l, ins) ==
  IF ecma_is_value_integer_number(l)
  THEN IF IntIncrease(IntegerWord(l), OpcodeFlags(ins.group)) # 0
       THEN IncrDecrPut(PostfixDelivered(f, h, l, ins), e, ECMA_VALUE_UNDEFINED,
                        IntegerOfWord(
                          WordAdd(IntegerWord(l),
                                  IntIncrease(IntegerWord(l), OpcodeFlags(ins.group)))),
                        ins, TRUE)
       ELSE IncrDecrNumber(f, h, e, ECMA_VALUE_UNDEFINED, l, ins)
  ELSE IF ecma_is_value_float_number(l)
  THEN IncrDecrNumber(f, h, e, ECMA_VALUE_UNDEFINED, l, ins)
  ELSE \E n \in ecma_op_to_number(h, e, l) :
         IF n.fail
         THEN GotoError(f, n.heap, n.ctx, l, ECMA_VALUE_UNDEFINED, ECMA_VALUE_ERROR)
         ELSE IncrDecrNumber(f, n.heap, n.ctx, l, n.val, ins)

\* the identifier forms: left_value is the literal
VM_OC_PRE_INCR ==
  /\ phase = "loop"
  /\ CurIns(Top).group \in {"PRE_INCR", "PRE_DECR", "POST_INCR", "POST_DECR"}
  /\ \E o \in Fetch(Top, heap, jcontext, CurIns(Top)) :
       IF o.fail THEN FetchFailed(o)
       ELSE IncrDecr(Advance(o.f), o.heap, [o.ctx EXCEPT !.get_value = o.left],
                     o.left, CurIns(Top))

\* the property forms: the value is read with vm_op_get_value and the
\* reference goes back on the stack for the put
VM_OC_PROP_PRE_INCR ==
  /\ phase = "loop"
  /\ CurIns(Top).group \in {"PROP_PRE_INCR", "PROP_PRE_DECR", "PROP_POST_INCR",
                            "PROP_POST_DECR"}
  /\ \E o \in Fetch(Top, heap, jcontext, CurIns(Top)) :
     \E g \in vm_op_get_value(o.heap, o.ctx, o.left, o.right) :
       IF ECMA_IS_VALUE_ERROR(g.val)
       THEN GotoError(o.f, g.heap, g.ctx, o.left, o.right, ECMA_VALUE_ERROR)
       ELSE IncrDecr(Advance(PushN(o.f, <<o.left, o.right>>)), g.heap,
                     [g.ctx EXCEPT !.get_value = g.val], g.val, CurIns(Top))

(***************************************************************************)
(* Opcode groups: control flow.                                            *)
(***************************************************************************)
\* result = left_value (or block_result); goto error
VM_OC_RETURN ==
  /\ At("RETURN")
  /\ \E o \in Fetch(Top, heap, jcontext, CurIns(Top)) :
       IF o.fail THEN FetchFailed(o)
       ELSE IF CurIns(Top).x = "RETURN_WITH_BLOCK"
            THEN GotoError([o.f EXCEPT !.block_result = ECMA_VALUE_UNDEFINED],
                           o.heap, o.ctx, ECMA_VALUE_UNDEFINED, o.right,
                           o.f.block_result)
            ELSE GotoError(o.f, o.heap, o.ctx, ECMA_VALUE_UNDEFINED, o.right, o.left)

\* VM_OC_EXT_RETURN dropping the operands without releasing them
DrainOperandsUnreleased(f, h) ==
  [f |-> [f EXCEPT !.stack = SubSeq(@, 1, f.context_depth)], heap |-> h]

\* the operands above the context records released, top first
\* (ecma_fast_free_value for each slot down to stack_bottom_p)
RECURSIVE DrainOperands(_, _)
DrainOperands(f, h) ==
  IF Len(f.stack) <= f.context_depth THEN [f |-> f, heap |-> h]
  ELSE DrainOperands(PopN(f, 1), FreeRef(h, StackTop(f, 1)))

VM_OC_EXT_RETURN ==
  /\ At("EXT_RETURN")
  /\ \E o \in Fetch(Top, heap, jcontext, CurIns(Top)) :
       IF o.fail THEN FetchFailed(o)
       ELSE GotoError(DrainOperands(o.f, o.heap).f, DrainOperands(o.f, o.heap).heap,
                      o.ctx, ECMA_VALUE_UNDEFINED, o.right, o.left)

VM_OC_THROW ==
  /\ At("THROW")
  /\ \E o \in Fetch(Top, heap, jcontext, CurIns(Top)) :
       GotoError(o.f, o.heap, jcontext_raise_exception(o.ctx, o.left),
                 ECMA_VALUE_UNDEFINED, o.right, ECMA_VALUE_ERROR)

VM_OC_ERROR ==
  /\ At("ERROR")
  /\ GotoError(Top, heap, jcontext, ECMA_VALUE_UNDEFINED, ECMA_VALUE_UNDEFINED,
               ECMA_VALUE_ERROR)

VM_OC_JUMP ==
  /\ At("JUMP")
  /\ \E o \in Fetch(Top, heap, jcontext, CurIns(Top)) :
       IF o.fail THEN FetchFailed(o)
       ELSE Continue(Jump(o.f, CurIns(Top)), o.heap, o.ctx)

\* the frame after a branch on the value on top of its stack
BranchIf(f, ins) ==
  LET value == StackTop(f, 1)
      boolean_value ==
        IF ins.group = "BRANCH_IF_FALSE"
        THEN ~ecma_op_to_boolean(value) ELSE ecma_op_to_boolean(value)
  IN PopN(IF boolean_value THEN Jump(f, ins) ELSE Advance(f), 1)

\* VM_OC_BRANCH_IF_TRUE / VM_OC_BRANCH_IF_FALSE: the tested value is popped
VM_OC_BRANCH_IF ==
  /\ phase = "loop"
  /\ CurIns(Top).group \in {"BRANCH_IF_TRUE", "BRANCH_IF_FALSE"}
  /\ \E o \in Fetch(Top, heap, jcontext, CurIns(Top)) :
       IF o.fail THEN FetchFailed(o)
       ELSE Continue(BranchIf(o.f, CurIns(Top)), FreeRef(o.heap, StackTop(o.f, 1)),
                     o.ctx)

(***************************************************************************)
(* Opcode groups: relational operators.                                    *)
(***************************************************************************)
ecma_make_boolean_value(b) == IF b THEN ECMA_VALUE_TRUE ELSE ECMA_VALUE_FALSE
\* left_number < right_number on ecma_number_t
NumberLess(x, y) ==
  IF x.nan \/ y.nan THEN FALSE
  ELSE IF IsZero(x) /\ IsZero(y) THEN FALSE
  ELSE IF x.neg # y.neg THEN x.neg
  ELSE IF x.neg THEN ~MagnitudeGeq(y, x)
  ELSE ~MagnitudeGeq(x, y)

\* opfunc_relation (left, right, true, false): true or false, or an error
\* thrown by the conversion of an object
opfunc_relation(h, e, l, r) ==
  {Outcome(ecma_make_boolean_value(b), h, e, FALSE) : b \in BOOLEAN}
  \cup (IF ecma_is_value_object(h, l) \/ ecma_is_value_object(h, r)
        THEN Raised(h, e, TRUE) ELSE {})

\* whether the byte at byte_code_p is one of CBC_BRANCH_IF_TRUE_BACKWARD,
\* CBC_BRANCH_IF_TRUE_BACKWARD_2 and CBC_BRANCH_IF_TRUE_BACKWARD_3
LessLookahead(f, byte_code_p) ==
  LET next == f.byte_code_start_p[byte_code_p]
  IN next.group = "BRANCH_IF_TRUE" /\ next.args = "BRANCH" /\ next.bwd

\* the position after a branch not taken, without the bytes of its offset
FusedNotTakenUnskipped(byte_code_p, branch_offset_length) == byte_code_p

\* the position after a branch not taken: byte_code_p += branch_offset_length
FusedNotTaken(byte_code_p, branch_offset_length) == byte_code_p + branch_offset_length

\* the branch LESS runs itself: byte_code_start_p is the branch opcode
LessBranch(f, byte_code_start_p, is_less) ==
  LET next == f.byte_code_start_p[byte_code_start_p]
      branch_offset_length == next.len
      branch_offset == BranchOffset([f EXCEPT !.pc = byte_code_start_p], next)
  IN [f EXCEPT !.pc = IF is_less THEN byte_code_start_p - branch_offset
                       ELSE FusedNotTaken(byte_code_start_p + 1, branch_offset_length)]

VM_OC_LESS ==
  /\ At("LESS")
  /\ \E o \in Fetch(Top, heap, jcontext, CurIns(Top)) :
       IF ecma_are_values_integer_numbers(o.left, o.right)
       THEN LET is_less == IntegerWord(o.left) < IntegerWord(o.right)
            IN IF ~o.ctx.JERRY_VM_EXEC_STOP /\ LessLookahead(o.f, o.f.pc + 1)
               THEN Continue(LessBranch(o.f, o.f.pc + 1, is_less), o.heap,
                             [o.ctx EXCEPT !.int_path = TRUE])
               ELSE PushNumber(Advance(o.f), o.heap, o.ctx,
                               ecma_make_boolean_value(is_less), TRUE)
       ELSE IF ecma_is_value_number(o.left) /\ ecma_is_value_number(o.right)
       THEN FreeBothValues(
              PushN(Advance(o.f),
                    <<ecma_make_boolean_value(
                        NumberLess(ecma_get_number_from_value(o.left),
                                   ecma_get_number_from_value(o.right)))>>),
              o.heap, [o.ctx EXCEPT !.int_path = FALSE], o.left, o.right)
       ELSE \E a \in opfunc_relation(o.heap, o.ctx, o.left, o.right) :
              IF a.fail
              THEN GotoError(o.f, a.heap, a.ctx, o.left, o.right, ECMA_VALUE_ERROR)
              ELSE FreeBothValues(PushN(Advance(o.f), <<a.val>>), a.heap,
                                  [a.ctx EXCEPT !.int_path = FALSE], o.left, o.right)

(***************************************************************************)
(* Opcode groups: try / catch / finally.                                   *)
(***************************************************************************)
\* a record pushed without counting it in context_depth
PushContextUncounted(f, n, tag) ==
  [f EXCEPT !.stack = @ \o [i \in 1..n |-> IF i = n THEN tag ELSE STACK_GARBAGE]]

\* a new record of n slots whose top slot is the tag
PushContext(f, n, tag) ==
  [f EXCEPT !.stack = @ \o [i \in 1..n |-> IF i = n THEN tag ELSE STACK_GARBAGE],
            !.context_depth = @ + n]

VM_OC_TRY ==
  /\ At("TRY")
  /\ \E o \in Fetch(Top, heap, jcontext, CurIns(Top)) :
       Continue(PushContext(Advance(o.f), PARSER_TRY_CONTEXT_STACK_ALLOCATION,
                            VM_CREATE_CONTEXT("TRY", BranchTarget(o.f, CurIns(Top)))),
                o.heap, o.ctx)

\* reached when the try block completes: a jump over the catch block
VM_OC_CATCH ==
  /\ At("CATCH")
  /\ \E o \in Fetch(Top, heap, jcontext, CurIns(Top)) :
       Continue(Jump(o.f, CurIns(Top)), o.heap, o.ctx)

\* reached when the try or catch block completes: the record becomes
\* FINALLY_JUMP and parks the position after the finally block
\* the same leaving the environment of a flagged record where it is
VM_OC_FINALLY_EnvKept ==
  /\ At("FINALLY")
  /\ \E o \in Fetch(Top, heap, jcontext, CurIns(Top)) :
       LET branch_offset == BranchTarget(o.f, CurIns(Top))
       IN Continue([Advance(Retag(o.f, "FINALLY_JUMP", branch_offset))
                      EXCEPT !.stack[Len(o.f.stack) - 1] = Raw(branch_offset)],
                   o.heap, o.ctx)

VM_OC_FINALLY ==
  /\ At("FINALLY")
  /\ \E o \in Fetch(Top, heap, jcontext, CurIns(Top)) :
       LET p == PopEnvIfFlagged(o.f, o.heap)
           branch_offset == BranchTarget(o.f, CurIns(Top))
       IN Continue([Advance(Retag(p.f, "FINALLY_JUMP", branch_offset))
                      EXCEPT !.stack[Len(p.f.stack) - 1] = Raw(branch_offset)],
                   p.heap, o.ctx)

\* a jump that goes to its target whatever finally blocks enclose it
JumpIgnoringFinally(f, h, e, jump_target) ==
  {State([f EXCEPT !.pc = jump_target], h, e)}

\* the jump part shared by VM_OC_CONTEXT_END and VM_OC_JUMP_AND_EXIT_CONTEXT:
\* either an enclosing finally block takes the jump and parks the target,
\* or control goes to the target
JumpThroughFinally(f, h, e, jump_target) ==
  {IF r.found
   THEN State([r.f EXCEPT !.stack[Len(r.f.stack) - 1] = Raw(jump_target)],
              r.heap, r.ctx)
   ELSE State([r.f EXCEPT !.pc = jump_target], r.heap, r.ctx) :
     r \in vm_stack_find_finally(f, h, e, "FINALLY_JUMP", jump_target)}

\* a CONTEXT_END that releases a parked exception and goes on after the
\* finally block
VM_OC_CONTEXT_END_ThrowDropped ==
  /\ At("CONTEXT_END")
  /\ LET context_type == StackTop(Top, 1).kind
         p == PopEnvIfFlagged(Top, heap)
         f == DropContext(Advance(p.f), PARSER_TRY_CONTEXT_STACK_ALLOCATION)
         parked == StackTop(Top, 2)
     IN IF ~VM_CONTEXT_IS_FINALLY(context_type)
        THEN \E a \in vm_stack_context_abort(Advance(Top), heap, jcontext) :
               Continue(a.f, a.heap, a.ctx)
        ELSE IF context_type = "FINALLY_RETURN"
        THEN GotoError(f, p.heap, jcontext, ECMA_VALUE_UNDEFINED,
                       ECMA_VALUE_UNDEFINED, parked)
        ELSE IF context_type = "FINALLY_THROW"
        THEN Continue(f, FreeRef(p.heap, parked), jcontext)
        ELSE \E j \in JumpThroughFinally(f, p.heap, jcontext, parked.v) :
               Continue(j.f, j.heap, j.ctx)

VM_OC_CONTEXT_END ==
  /\ At("CONTEXT_END")
  /\ LET context_type == StackTop(Top, 1).kind
         p == PopEnvIfFlagged(Top, heap)
         f == DropContext(Advance(p.f), PARSER_TRY_CONTEXT_STACK_ALLOCATION)
         parked == StackTop(Top, 2)
     IN IF ~VM_CONTEXT_IS_FINALLY(context_type)
        THEN \E a \in vm_stack_context_abort(Advance(Top), heap, jcontext) :
               Continue(a.f, a.heap, a.ctx)
        ELSE IF context_type = "FINALLY_RETURN"
        THEN GotoError(f, p.heap, jcontext, ECMA_VALUE_UNDEFINED,
                       ECMA_VALUE_UNDEFINED, parked)
        ELSE IF context_type = "FINALLY_THROW"
        THEN GotoError(f, p.heap, jcontext_raise_exception(jcontext, parked),
                       ECMA_VALUE_UNDEFINED, ECMA_VALUE_UNDEFINED, ECMA_VALUE_ERROR)
        ELSE \E j \in JumpThroughFinally(f, p.heap, jcontext, parked.v) :
               Continue(j.f, j.heap, j.ctx)

VM_OC_JUMP_AND_EXIT_CONTEXT ==
  /\ At("JUMP_AND_EXIT_CONTEXT")
  /\ \E o \in Fetch(Top, heap, jcontext, CurIns(Top)) :
     \E j \in JumpThroughFinally(o.f, o.heap, o.ctx, BranchTarget(o.f, CurIns(Top))) :
       IF jcontext_has_pending_exception(j.ctx)
       THEN GotoError(j.f, j.heap, j.ctx, ECMA_VALUE_UNDEFINED,
                      ECMA_VALUE_UNDEFINED, ECMA_VALUE_ERROR)
       ELSE Continue(j.f, j.heap, j.ctx)

(***************************************************************************)
(* Opcode groups: with, block scope, for-in, for-of.                       *)
(***************************************************************************)
VM_OC_WITH ==
  /\ At("WITH")
  /\ \E o \in Fetch(Top, heap, jcontext, CurIns(Top)) :
     \E t \in ecma_op_to_object(o.heap, o.ctx, StackTop(o.f, 1)) :
       LET value == StackTop(o.f, 1)
           f == PopN(o.f, 1)
       IN IF t.fail
          THEN GotoError(f, FreeRef(t.heap, value), t.ctx, ECMA_VALUE_UNDEFINED,
                         ECMA_VALUE_UNDEFINED, ECMA_VALUE_ERROR)
          ELSE Continue(
                 [PushContext(Advance(f), PARSER_WITH_CONTEXT_STACK_ALLOCATION,
                     VM_CREATE_CONTEXT_WITH_ENV("WITH", BranchTarget(o.f, CurIns(Top))))
                    EXCEPT !.lex_env = Append(@, ObjectEnv(t.val))],
                 FreeRef(t.heap, value), t.ctx)

\* the record goes below a switch value that may lie on the stack; the
\* extended form flags the enclosing try record instead
VM_OC_BLOCK_CREATE_CONTEXT ==
  /\ At("BLOCK_CREATE_CONTEXT")
  /\ \E o \in Fetch(Top, heap, jcontext, CurIns(Top)) :
       LET f == Advance(o.f)
           d == f.context_depth
       IN IF CurIns(Top).x = "BLOCK"
          THEN Continue(
                 [f EXCEPT
                    !.stack = SubSeq(@, 1, d)
                              \o << VM_CREATE_CONTEXT_WITH_ENV(
                                      "BLOCK", BranchTarget(o.f, CurIns(Top))) >>
                              \o SubSeq(@, d + 1, Len(@)),
                    !.context_depth = @ + PARSER_BLOCK_CONTEXT_STACK_ALLOCATION,
                    !.lex_env = Append(@, DeclEnv)],
                 o.heap, o.ctx)
          ELSE Continue([f EXCEPT !.stack[d].lex = TRUE,
                                  !.lex_env = Append(@, DeclEnv)],
                        o.heap, o.ctx)

\* opfunc_for_in: no collection for undefined, null and objects without
\* enumerable names; otherwise the names and a reference to the object
opfunc_for_in(h, v) ==
  IF IsPtr(v) /\ h[v.v].names # {}
  THEN {[names |-> EnumerateNames(h[v.v].names, 1),
         obj |-> v,
         heap |-> CopyRef(CopyAll(h, EnumerateNames(h[v.v].names, 1)), v)]}
  ELSE {[names |-> <<>>, obj |-> ECMA_VALUE_UNDEFINED, heap |-> h]}

\* ecma_op_object_has_property
ecma_op_object_has_property(h, object, name) == NameIndex(name) \in h[object.v].names

VM_OC_FOR_IN_CREATE_CONTEXT ==
  /\ At("FOR_IN_CREATE_CONTEXT")
  /\ \E o \in Fetch(Top, heap, jcontext, CurIns(Top)) :
     \E c \in opfunc_for_in(o.heap, StackTop(o.f, 1)) :
       LET value == StackTop(o.f, 1)
           f == PopN(o.f, 1)
       IN IF c.names = <<>>
          THEN Continue(Jump(f, CurIns(Top)), FreeRef(c.heap, value), o.ctx)
          ELSE Continue(
                 [Advance(f) EXCEPT
                    !.stack = @ \o << c.obj, Raw(0), Coll(c.names),
                                      VM_CREATE_CONTEXT("FOR_IN",
                                         BranchTarget(o.f, CurIns(Top))) >>,
                    !.context_depth = @ + PARSER_FOR_IN_CONTEXT_STACK_ALLOCATION],
                 FreeRef(c.heap, value), [o.ctx EXCEPT !.delivered = <<>>])

\* the name at the cursor moves from the collection to the operand stack
VM_OC_FOR_IN_GET_NEXT ==
  /\ At("FOR_IN_GET_NEXT")
  /\ LET f == Advance(Top)
         d == f.context_depth
         index == f.stack[d - 2].v
     IN Continue([f EXCEPT !.stack = Append(@, f.stack[d - 1].v[index + 1]),
                           !.stack[d - 2] = Raw(index + 1)],
                 heap,
                 [jcontext EXCEPT !.delivered = Append(@, f.stack[d - 1].v[index + 1])])

\* the cursor left where it is
ForInNextIndexUnexamined(h, object, collection, first) == first

\* the while loop of VM_OC_FOR_IN_HAS_NEXT: the index of the first name from
\* the cursor on that the object still has, or item_count
ForInNextIndex(h, object, collection, first) ==
  LET stops == {i \in first..Len(collection.v) :
                  \/ i = Len(collection.v)
                  \/ ecma_op_object_has_property(h, object, collection.v[i + 1])}
  IN CHOOSE i \in stops : \A j \in stops : i <= j

\* names no longer present on the object are skipped and released; with a
\* name left the loop branches back, otherwise the record is removed
VM_OC_FOR_IN_HAS_NEXT ==
  /\ At("FOR_IN_HAS_NEXT")
  /\ \E o \in Fetch(Top, heap, jcontext, CurIns(Top)) :
       IF o.fail THEN FetchFailed(o)
       ELSE LET f == o.f
                collection == StackTop(f, 2)
                item_count == Len(collection.v)
                first == StackTop(f, 3).v
                index == ForInNextIndex(o.heap, StackTop(f, 4), collection, first)
                h == FreeAll(o.heap, SubSeq(collection.v, first + 1, index))
            IN      IF index = item_count
                    THEN Continue(
                           DropContext(Advance(f), PARSER_FOR_IN_CONTEXT_STACK_ALLOCATION),
                           FreeRef(h, StackTop(f, 4)), o.ctx)
                    ELSE Continue(
                           [Jump(f, CurIns(Top)) EXCEPT
                              !.stack[Len(f.stack) - 2] = Raw(index)],
                           h, o.ctx)

\* ecma_op_get_iterator: a new iterator object, or the value is not iterable
ecma_op_get_iterator(h, e) == Created(h, e, "iterator", 0) \cup Raised(h, e, TRUE)
\* ecma_op_iterator_step: a result object, false when done, or next throws
ecma_op_iterator_step(h, e) ==
  Created(h, e, "iter_result", 0)
  \cup {Outcome(ECMA_VALUE_FALSE, h, e, FALSE)}
  \cup Raised(h, e, TRUE)
\* ecma_op_iterator_value: the value property of a result object
ecma_op_iterator_value(h, e) ==
  {Outcome(v, CopyRef(h, v), e, FALSE) : v \in {ECMA_VALUE_UNDEFINED, Ptr(1)}}
  \cup Raised(h, e, TRUE)

VM_OC_FOR_OF_CREATE_CONTEXT ==
  /\ At("FOR_OF_CREATE_CONTEXT")
  /\ \E o \in Fetch(Top, heap, jcontext, CurIns(Top)) :
     \E it \in ecma_op_get_iterator(o.heap, o.ctx) :
       LET value == StackTop(o.f, 1)
           f == PopN(o.f, 1)
       IN IF it.fail
          THEN GotoError(f, FreeRef(it.heap, value), it.ctx, ECMA_VALUE_UNDEFINED,
                         ECMA_VALUE_UNDEFINED, ECMA_VALUE_ERROR)
          ELSE \E n \in ecma_op_iterator_step(FreeRef(it.heap, value), it.ctx) :
                 IF n.fail
                 THEN GotoError(f, FreeRef(n.heap, it.val), n.ctx,
                                ECMA_VALUE_UNDEFINED, ECMA_VALUE_UNDEFINED,
                                ECMA_VALUE_ERROR)
                 ELSE IF n.val = ECMA_VALUE_FALSE
                 THEN Continue(Jump(f, CurIns(Top)), FreeRef(n.heap, it.val), n.ctx)
                 ELSE Continue(
                        [Advance(f) EXCEPT
                           !.stack = @ \o << it.val, n.val,
                                [VM_CREATE_CONTEXT("FOR_OF",
                                    BranchTarget(o.f, CurIns(Top)))
                                   EXCEPT !.close = TRUE] >>,
                           !.context_depth = @ + PARSER_FOR_OF_CONTEXT_STACK_ALLOCATION],
                        n.heap, n.ctx)

VM_OC_FOR_OF_GET_NEXT ==
  /\ At("FOR_OF_GET_NEXT")
  /\ \E v \in ecma_op_iterator_value(heap, jcontext) :
       IF v.fail
       THEN GotoError(Top, v.heap, v.ctx, ECMA_VALUE_UNDEFINED,
                      ECMA_VALUE_UNDEFINED, ECMA_VALUE_ERROR)
       ELSE Continue(PushN(Advance(Top), <<v.val>>), v.heap, v.ctx)

\* the same closing the iterator when it is exhausted
VM_OC_FOR_OF_HAS_NEXT_Closing ==
  /\ At("FOR_OF_HAS_NEXT")
  /\ \E o \in Fetch(Top, heap, jcontext, CurIns(Top)) :
       IF o.fail THEN FetchFailed(o)
       ELSE \E n \in ecma_op_iterator_step(o.heap, o.ctx) :
              IF n.fail
              THEN GotoError(o.f, n.heap, n.ctx, ECMA_VALUE_UNDEFINED,
                             ECMA_VALUE_UNDEFINED, ECMA_VALUE_ERROR)
              ELSE IF n.val # ECMA_VALUE_FALSE
              THEN Continue([Jump(o.f, CurIns(Top)) EXCEPT
                               !.stack[Len(o.f.stack) - 1] = n.val],
                            FreeRef(n.heap, StackTop(o.f, 2)), n.ctx)
              ELSE Continue(
                     DropContext(Advance(o.f), PARSER_FOR_OF_CONTEXT_STACK_ALLOCATION),
                     FreeRef(FreeRef(n.heap, StackTop(o.f, 2)), StackTop(o.f, 3)),
                     [n.ctx EXCEPT !.closes = 1 - @])

VM_OC_FOR_OF_HAS_NEXT ==
  /\ At("FOR_OF_HAS_NEXT")
  /\ \E o \in Fetch(Top, heap, jcontext, CurIns(Top)) :
       IF o.fail THEN FetchFailed(o)
       ELSE \E n \in ecma_op_iterator_step(o.heap, o.ctx) :
              IF n.fail
              THEN GotoError(o.f, n.heap, n.ctx, ECMA_VALUE_UNDEFINED,
                             ECMA_VALUE_UNDEFINED, ECMA_VALUE_ERROR)
              ELSE IF n.val # ECMA_VALUE_FALSE
              THEN Continue([Jump(o.f, CurIns(Top)) EXCEPT
                               !.stack[Len(o.f.stack) - 1] = n.val],
                            FreeRef(n.heap, StackTop(o.f, 2)), n.ctx)
              ELSE Continue(
                     DropContext(Advance(o.f), PARSER_FOR_OF_CONTEXT_STACK_ALLOCATION),
                     FreeRef(FreeRef(n.heap, StackTop(o.f, 2)), StackTop(o.f, 3)),
                     n.ctx)

(***************************************************************************)
(* The error label of vm_loop.                                             *)
(***************************************************************************)
ECMA_VALUE_RELEASE_LEX_ENV == Direct("release_lex_env")

\* a drain that leaves the operands where they are
DrainNothing(f, h) == [f |-> f, heap |-> h]

\* the operand stack drained down to the context records
RECURSIVE DrainStack(_, _)
DrainStack(f, h) ==
  IF Len(f.stack) <= f.context_depth THEN [f |-> f, heap |-> h]
  ELSE IF StackTop(f, 1) = ECMA_VALUE_RELEASE_LEX_ENV
       THEN DrainStack(opfunc_pop_lexical_environment(PopN(f, 1), h).f,
                       opfunc_pop_lexical_environment(PopN(f, 1), h).heap)
       ELSE DrainStack(PopN(f, 1), FreeRef(h, StackTop(f, 1)))

\* every context record aborted, innermost first
RECURSIVE AbortAll(_, _, _)
AbortAll(f, h, e) ==
  UNION { IF a.f.context_depth > 0 THEN AbortAll(a.f, a.heap, a.ctx) ELSE {a} :
          a \in vm_stack_context_abort(f, h, e) }

\* vm_loop returns res to vm_execute: block_result is released
ReturnFromLoop(f, h, e, res) ==
  /\ frames' = SetTop([f EXCEPT !.call_operation = VM_NO_EXEC_OP,
                                !.block_result = ECMA_VALUE_UNDEFINED])
  /\ heap' = FreeRef(h, f.block_result)
  /\ jcontext' = e
  /\ left_value' = ECMA_VALUE_UNDEFINED
  /\ right_value' = ECMA_VALUE_UNDEFINED
  /\ result' = ECMA_VALUE_EMPTY
  /\ completion' = res
  /\ phase' = "exec"

\* a return that enters the finally block without parking its value
ErrorReturnNotParked(f, h, e, res) ==
  \E r \in vm_stack_find_finally(f, h, e, "FINALLY_RETURN", 0) :
    IF r.found
    THEN Continue(r.f, FreeRef(r.heap, res), r.ctx)
    ELSE ReturnFromLoop(r.f, r.heap, r.ctx, res)

\* a return value on its way out: an enclosing finally block parks it
ErrorReturn(f, h, e, res) ==
  \E r \in vm_stack_find_finally(f, h, e, "FINALLY_RETURN", 0) :
    IF r.found
    THEN IF jcontext_has_pending_exception(r.ctx)
         THEN Continue([r.f EXCEPT !.stack[Len(r.f.stack)].kind = "FINALLY_THROW",
                                   !.stack[Len(r.f.stack) - 1] = r.ctx.error_value],
                       FreeRef(r.heap, res), jcontext_take_exception(r.ctx))
         ELSE Continue([r.f EXCEPT !.stack[Len(r.f.stack) - 1] = res], r.heap, r.ctx)
    ELSE IF jcontext_has_pending_exception(r.ctx)
         THEN ReturnFromLoop(r.f, FreeRef(r.heap, res), r.ctx, ECMA_VALUE_ERROR)
         ELSE ReturnFromLoop(r.f, r.heap, r.ctx, res)

\* a handler search that parks the exception below the tag for a catch
\* block as well
ErrorThrowParkedOnly(f, h, e) ==
  \E r \in vm_stack_find_finally(f, h, e, "FINALLY_THROW", 0) :
    IF r.found
    THEN Continue([r.f EXCEPT !.stack[Len(r.f.stack) - 1] = r.ctx.error_value],
                  r.heap, jcontext_take_exception(r.ctx))
    ELSE ReturnFromLoop(r.f, r.heap, r.ctx, ECMA_VALUE_ERROR)

\* a handler search that takes the finally record the exception was thrown
\* under as the handler: the exception is parked over its continuation
ErrorThrowIntoSameFinally(f, h, e) ==
  IF VM_CONTEXT_IS_FINALLY(StackTop(f, 1).kind)
  THEN Continue([f EXCEPT !.stack[Len(f.stack)].kind = "FINALLY_THROW",
                          !.stack[Len(f.stack) - 1] = e.error_value],
                h, jcontext_take_exception(e))
  ELSE \E r \in vm_stack_find_finally(f, h, e, "FINALLY_THROW", 0) :
         IF r.found
         THEN IF StackTop(r.f, 1).kind = "FINALLY_THROW"
              THEN Continue([r.f EXCEPT !.stack[Len(r.f.stack) - 1] = r.ctx.error_value],
                            r.heap, jcontext_take_exception(r.ctx))
              ELSE Continue(PushN(r.f, <<r.ctx.error_value>>),
                            r.heap, jcontext_take_exception(r.ctx))
         ELSE ReturnFromLoop(r.f, r.heap, r.ctx, ECMA_VALUE_ERROR)

\* a handler search that hands an exception thrown in a catch block to
\* that catch block again
ErrorThrowCaughtAgain(f, h, e) ==
  IF StackTop(f, 1).kind = "CATCH"
  THEN Continue(PushN([f EXCEPT !.pc = (CHOOSE i \in 1..Len(f.byte_code_start_p) :
                                          /\ f.byte_code_start_p[i].group = "CATCH"
                                          /\ i + f.byte_code_start_p[i].off
                                               = StackTop(f, 1).end) + 1,
                                !.error_code = FALSE],
                      <<e.error_value>>),
                h, jcontext_take_exception(e))
  ELSE \E r \in vm_stack_find_finally(f, h, e, "FINALLY_THROW", 0) :
         IF r.found
         THEN IF StackTop(r.f, 1).kind = "FINALLY_THROW"
              THEN Continue([r.f EXCEPT !.stack[Len(r.f.stack) - 1] = r.ctx.error_value],
                            r.heap, jcontext_take_exception(r.ctx))
              ELSE Continue(PushN(r.f, <<r.ctx.error_value>>),
                            r.heap, jcontext_take_exception(r.ctx))
         ELSE ReturnFromLoop(r.f, r.heap, r.ctx, ECMA_VALUE_ERROR)

\* a pending exception that may be caught: a catch block receives it on the
\* operand stack, a finally block parks it
ErrorThrow(f, h, e) ==
  \E r \in vm_stack_find_finally(f, h, e, "FINALLY_THROW", 0) :
    IF r.found
    THEN IF StackTop(r.f, 1).kind = "FINALLY_THROW"
         THEN Continue([r.f EXCEPT !.stack[Len(r.f.stack) - 1] = r.ctx.error_value],
                       r.heap, jcontext_take_exception(r.ctx))
         ELSE Continue(PushN(r.f, <<r.ctx.error_value>>),
                       r.heap, jcontext_take_exception(r.ctx))
    ELSE ReturnFromLoop(r.f, r.heap, r.ctx, ECMA_VALUE_ERROR)

\* an abort offered to the catch and finally blocks like an exception
ErrorAbortCaught(f, h, e) == ErrorThrow(f, h, e)

\* an abort (or an error result without a pending exception): no handler runs
ErrorAbort(f, h, e) ==
  \E a \in AbortAll(f, h, e) : ReturnFromLoop(a.f, a.heap, a.ctx, ECMA_VALUE_ERROR)

ErrorLabel ==
  /\ phase = "error"
  /\ LET h0 == FreeRef(FreeRef(heap, left_value), right_value)
         d == IF ECMA_IS_VALUE_ERROR(result) THEN DrainStack(Top, h0)
              ELSE [f |-> Top, heap |-> h0]
     IN IF d.f.context_depth = 0
        THEN ReturnFromLoop(d.f, d.heap, jcontext, result)
        ELSE IF ~ECMA_IS_VALUE_ERROR(result)
        THEN ErrorReturn(d.f, d.heap, jcontext, result)
        ELSE IF jcontext_has_pending_exception(jcontext)
                /\ ~jcontext_has_pending_abort(jcontext)
        THEN ErrorThrow(d.f, d.heap, jcontext)
        ELSE ErrorAbort(d.f, d.heap, jcontext)

(***************************************************************************)
(* Calls: VM_OC_CALL leaves vm_loop, vm_execute runs opfunc_call, which    *)
(* runs the callee in a new frame and routes its completion value.         *)
(***************************************************************************)
\* the status flag is set for the call that follows
VM_OC_EVAL ==
  /\ At("EVAL")
  /\ Continue(Advance(Top), heap, [jcontext EXCEPT !.direct_eval = TRUE])

VM_OC_CALL ==
  /\ At("CALL")
  /\ frames' = SetTop([Top EXCEPT !.call_operation = VM_EXEC_CALL])
  /\ completion' = ECMA_VALUE_UNDEFINED
  /\ phase' = "exec"
  /\ UNCHANGED <<heap, jcontext, left_value, right_value, result>>

ecma_op_object_is_callable(h, v) ==
  IsPtr(v) /\ h[v.v].kind \in {"function", "native", "eval"}

\* the arguments of the call at byte_code_p, and the function below them
CallArgs(f) == SubSeq(f.stack, Len(f.stack) - CurIns(f).x + 1, Len(f.stack))
CallFunc(f) == f.stack[Len(f.stack) - CurIns(f).x]

\* the property-call forms have the base and the property name under the
\* function
is_call_prop(ins) == (ins.a % 6) >= 3

\* the two slots under the arguments of a property call released: the
\* function, then the property name
CallPropReleased(f1, h1) ==
  [f |-> PopN(f1, 2), heap |-> FreeAll(h1, <<StackTop(f1, 1), StackTop(f1, 2)>>)]

\* the arguments released, and in the property-call form the two slots
\* under them
CallReleased(f, h) ==
  IF is_call_prop(CurIns(f))
  THEN CallPropReleased(PopN(f, CurIns(f).x), FreeAll(h, CallArgs(f)))
  ELSE [f |-> PopN(f, CurIns(f).x), heap |-> FreeAll(h, CallArgs(f))]

\* a completion value that is not ERROR routed as the decode table of the
\* opcode ins says, after the slot on top of the stack is released
CallDelivered(f1, h1, e, completion_value, ins) ==
  IF ins.put \cap {"STACK", "BLOCK"} = {}
  THEN State(PopN(f1, 1), FreeAll(h1, <<StackTop(f1, 1), completion_value>>), e)
  ELSE State(PutStackOrBlock(PopN(f1, 1), FreeRef(h1, StackTop(f1, 1)),
                             completion_value, ins).f,
             PutStackOrBlock(PopN(f1, 1), FreeRef(h1, StackTop(f1, 1)),
                             completion_value, ins).heap, e)

\* the same with the byte-code cursor left at the call when the callee has
\* thrown
CallTailCursorKept(f, h, e, completion_value) ==
  IF ECMA_IS_VALUE_ERROR(completion_value)
  THEN State(CallReleased(f, h).f, CallReleased(f, h).heap, e)
  ELSE CallDelivered(Advance(CallReleased(f, h).f), CallReleased(f, h).heap, e,
                     completion_value, CurIns(f))

\* the same with the stack top left above the function after a property
\* call has failed
CallTailPropertyKept(f, h, e, completion_value) ==
  IF ECMA_IS_VALUE_ERROR(completion_value)
  THEN State([PopN(f, CurIns(f).x) EXCEPT !.error_code = TRUE],
             CallReleased(f, h).heap, e)
  ELSE CallDelivered(Advance(CallReleased(f, h).f), CallReleased(f, h).heap, e,
                     completion_value, CurIns(f))

\* the part of opfunc_call after the callee has completed
CallTail(f, h, e, completion_value) ==
  IF ECMA_IS_VALUE_ERROR(completion_value)
  THEN State([CallReleased(f, h).f EXCEPT !.error_code = TRUE],
             CallReleased(f, h).heap, e)
  ELSE CallDelivered(Advance(CallReleased(f, h).f), CallReleased(f, h).heap, e,
                     completion_value, CurIns(f))

\* control is back in vm_loop of the frame f
Resume(fs, t) ==
  /\ frames' = fs
  /\ heap' = t.heap
  /\ jcontext' = t.ctx
  /\ left_value' = ECMA_VALUE_UNDEFINED
  /\ right_value' = ECMA_VALUE_UNDEFINED
  /\ result' = ECMA_VALUE_EMPTY
  /\ completion' = ECMA_VALUE_EMPTY
  /\ phase' = "loop"

\* what an external function handler can do: add and delete properties of
\* the object the global object holds, and return a value or throw
NativeCall(h, e) ==
  UNION {{Outcome(v, CopyRef(WithNames(h, ns), v), e, FALSE) :
            v \in {ECMA_VALUE_UNDEFINED, Ptr(2)}}
         \cup Raised(WithNames(h, ns), e, TRUE) : ns \in SUBSET (1..MaxNames)}

\* ecma_op_function_call for a callee whose run is taken as a whole
ecma_op_function_call(h, e) == NativeCall(h, [e EXCEPT !.calls = 1 - @])

\* the completion value of a call whose callee is not run in a frame of
\* its own: the first part of opfunc_call
CallCompletion(f, h, e) ==
  IF ~(ecma_is_value_object(h, CallFunc(f))
       /\ ecma_op_object_is_callable(h, CallFunc(f)))
  THEN ecma_raise_type_error(h, e)
  ELSE ecma_op_function_call(h, e)

\* vm_execute, case VM_EXEC_CALL, for a callee that is not byte code
opfunc_call_native ==
  /\ phase = "exec"
  /\ Top.call_operation = VM_EXEC_CALL
  /\ ~(ecma_op_object_is_callable(heap, CallFunc(Top))
       /\ heap[CallFunc(Top).v].kind \in {"function", "eval"})
  /\ \E c \in CallCompletion(Top, heap, jcontext) :
       Resume(SetTop(CallTail(Top, c.heap, c.ctx, c.val).f),
              [CallTail(Top, c.heap, c.ctx, c.val) EXCEPT !.ctx.direct_eval = FALSE])

\* vm_execute, case VM_EXEC_CALL, for a byte-code function: vm_run builds
\* the callee's frame
opfunc_call_run ==
  /\ phase = "exec"
  /\ Top.call_operation = VM_EXEC_CALL
  /\ ecma_op_object_is_callable(heap, CallFunc(Top))
  /\ heap[CallFunc(Top).v].kind = "function"
  /\ Len(frames) < MaxFrames
  /\ CBC_CODE_FLAGS_REST_PARAMETER
       \in CodeHeader(heap[CallFunc(Top).v].code).status_flags => HasFree(heap)
  /\ frames' = Append(frames, Chained(vm_run(heap, heap[CallFunc(Top).v].code,
                                             ECMA_VALUE_UNINITIALIZED, <<>>,
                                             CallArgs(Top), FALSE),
                                      jcontext))
  /\ heap' = InitExecHeap(heap, heap[CallFunc(Top).v].code, CallArgs(Top))
  /\ jcontext' = [jcontext EXCEPT !.calls = 1 - @, !.direct_eval = FALSE,
                                  !.vm_top_context_p = Len(frames) + 1]
  /\ completion' = ECMA_VALUE_EMPTY
  /\ phase' = "loop"
  /\ UNCHANGED <<left_value, right_value, result>>

\* vm_execute without its case for VM_EXEC_CONSTRUCT: the default case takes
\* the frame
vm_execute_return_construct_unhandled ==
  /\ phase = "exec"
  /\ Top.call_operation \in {VM_NO_EXEC_OP, VM_EXEC_CONSTRUCT}
  /\ frames' = SubSeq(frames, 1, Len(frames) - 1)
  /\ heap' = FreeAll(heap, Top.regs)
  /\ jcontext' = [jcontext EXCEPT !.vm_top_context_p = Top.prev_context_p]
  /\ phase' = IF Len(frames) = 1 THEN "done" ELSE "ret"
  /\ UNCHANGED <<left_value, right_value, result, completion>>

\* vm_execute leaving the top context as it is when the frame returns
vm_execute_return_top_kept ==
  /\ phase = "exec"
  /\ Top.call_operation = VM_NO_EXEC_OP
  /\ frames' = SubSeq(frames, 1, Len(frames) - 1)
  /\ heap' = FreeAll(heap, Top.regs)
  /\ phase' = IF Len(frames) = 1 THEN "done" ELSE "ret"
  /\ UNCHANGED <<jcontext, left_value, right_value, result, completion>>

\* vm_execute, default case: the registers are released and the frame
\* leaves the chain; the completion value goes to the caller
vm_execute_return ==
  /\ phase = "exec"
  /\ Top.call_operation = VM_NO_EXEC_OP
  /\ frames' = SubSeq(frames, 1, Len(frames) - 1)
  /\ heap' = FreeAll(heap, Top.regs)
  /\ jcontext' = [jcontext EXCEPT !.vm_top_context_p = Top.prev_context_p]
  /\ phase' = IF Len(frames) = 1 THEN "done" ELSE "ret"
  /\ UNCHANGED <<left_value, right_value, result, completion>>

\* what a call of vm_run_eval holds
RunEvalHeld(this_binding, lex_env_ref, code) ==
  [this_binding |-> this_binding, lex_env_p |-> lex_env_ref, bytecode |-> code]

\* the end of vm_run_eval after vm_run has returned: the environment, the
\* this binding and the byte code are released
RunEvalReleased(h, e) ==
  [heap |-> FreeRef(h, e.run_eval[Len(e.run_eval)].this_binding),
   ctx |-> [e EXCEPT !.run_eval = SubSeq(@, 1, Len(@) - 1)]]

\* what is left of the callee once its vm_run has returned: eval code
\* returns through the end of vm_run_eval
CalleeReturned(f, h, e) ==
  IF h[CallFunc(f).v].kind = "eval" THEN RunEvalReleased(h, e)
  ELSE [heap |-> h, ctx |-> e]

\* the callee's vm_run has returned into opfunc_call
opfunc_call_return ==
  /\ phase = "ret"
  /\ \E r \in {CalleeReturned(Top, heap, jcontext)} :
       \E t \in {CallTail(Top, r.heap, r.ctx, completion)} :
         Resume(SetTop(t.f), [t EXCEPT !.ctx.direct_eval = FALSE])

(***************************************************************************)
(* Eval.  The environment an eval code runs in is the last entry of the    *)
(* frame's lex_env: first the environment vm_run_eval starts from, which   *)
(* is not the frame's own, then the environments created around it.        *)
(***************************************************************************)
\* the global object, which lives as long as the engine
ecma_builtin_get_global == Direct("global")
\* ecma_get_global_scope, and JERRY_CONTEXT (vm_top_context_p)->lex_env_p:
\* the environment the frame below in the chain is running in
ecma_get_global_scope ==
  [kind |-> "global_scope", obj |-> ECMA_VALUE_UNDEFINED, block |-> FALSE]
TopContextEnv ==
  [kind |-> "top_context", obj |-> ECMA_VALUE_UNDEFINED, block |-> FALSE]
\* the environment chain_index steps out from there (JERRY_DEBUGGER)
OuterContextEnv(chain_index) ==
  IF chain_index = 0 THEN TopContextEnv
  ELSE [kind |-> "outer_context", obj |-> ECMA_VALUE_UNDEFINED, block |-> FALSE,
        chain_index |-> chain_index]

\* vm_run_eval creating the block environment in place of the strict one:
\* one environment when either flag is set
EvalEnvsBlockOnly(status_flags) ==
  IF status_flags \cap {CBC_CODE_FLAGS_STRICT_MODE,
                        CBC_CODE_FLAGS_LEXICAL_BLOCK_NEEDED} # {}
  THEN <<[ecma_create_decl_lex_env EXCEPT
            !.block = CBC_CODE_FLAGS_LEXICAL_BLOCK_NEEDED \in status_flags]>>
  ELSE <<>>

\* the environments around the one vm_run_eval starts from
EvalEnvs(status_flags) ==
  (IF CBC_CODE_FLAGS_STRICT_MODE \in status_flags
   THEN <<ecma_create_decl_lex_env>> ELSE <<>>)
  \o (IF CBC_CODE_FLAGS_LEXICAL_BLOCK_NEEDED \in status_flags
      THEN <<[ecma_create_decl_lex_env EXCEPT !.block = TRUE]>> ELSE <<>>)

\* the scope chain index of parse_opts, which only a build with
\* JERRY_DEBUGGER reads, and only for a direct eval
MaxChainIndex == 2
ChainIndex(e, direct, chain_index) ==
  IF e.JERRY_DEBUGGER /\ direct THEN chain_index ELSE 0

\* vm_run_eval leaving with the RangeError for a scope chain index that
\* leads out of the chain: the this binding has been copied, the byte code
\* is the one it was given, the environment has not been referenced yet
RunEvalRangeError(f, h, e, code) ==
  ecma_raise_standard_error(
    CopyRef(h, f.this_binding),
    [e EXCEPT !.calls = 1 - @,
              !.run_eval = Append(@, RunEvalHeld(f.this_binding, FALSE, code))],
    ECMA_ERROR_RANGE)

\* vm_run_eval up to the frame vm_run builds: code is the compiled eval
\* code, direct says whether parse_opts has ECMA_PARSE_DIRECT_EVAL and
\* chain_index is the scope chain index of parse_opts
vm_run_eval ==
  /\ phase = "exec"
  /\ Top.call_operation = VM_EXEC_CALL
  /\ ecma_op_object_is_callable(heap, CallFunc(Top))
  /\ heap[CallFunc(Top).v].kind = "eval"
  /\ \E code \in EvalUnits, direct \in BOOLEAN, chain_index \in 0..MaxChainIndex :
       IF ChainIndex(jcontext, direct, chain_index) > Len(Top.lex_env)
       THEN \E c \in RunEvalRangeError(Top, heap, jcontext, code) :
              \E t \in {CallTail(Top, c.heap, c.ctx, c.val)} :
                Resume(SetTop(t.f), [t EXCEPT !.ctx.direct_eval = FALSE])
       ELSE LET this_binding == IF direct THEN Top.this_binding
                                ELSE ecma_builtin_get_global
                lex_env_p == IF direct
                             THEN OuterContextEnv(ChainIndex(jcontext, direct,
                                                             chain_index))
                             ELSE ecma_get_global_scope
            IN /\ Len(frames) < MaxFrames
               /\ frames' = Append(frames,
                                   Chained(vm_run(heap, code, this_binding,
                                                  <<lex_env_p>>
                                                  \o EvalEnvs(CodeHeader(code).status_flags),
                                                  <<>>, direct),
                                           jcontext))
               /\ heap' = InitExecHeap(CopyRef(heap, this_binding), code, <<>>)
               /\ jcontext' = [jcontext EXCEPT
                                 !.calls = 1 - @, !.direct_eval = FALSE,
                                 !.run_eval = Append(@, RunEvalHeld(this_binding,
                                                                    TRUE, code)),
                                 !.vm_top_context_p = Len(frames) + 1]
               /\ completion' = ECMA_VALUE_EMPTY
               /\ phase' = "loop"
               /\ UNCHANGED <<left_value, right_value, result>>

(***************************************************************************)
(* Generators: VM_OC_CREATE_GENERATOR hands the frame to a new executable  *)
(* object, VM_OC_YIELD suspends it; both leave vm_loop and vm_execute.     *)
(* While the frame runs it is part of the frame chain, and while it is     *)
(* suspended it is kept in the cell of its executable object.              *)
(***************************************************************************)
\* opfunc_create_executable_object: the frame as it is now becomes the
\* frame of a new executable object, or the creation throws
opfunc_create_executable_object(f, h, e) ==
  (IF HasFree(h)
   THEN {[f |-> [f EXCEPT !.executable_object = NewCell(h)],
          val |-> Ptr(NewCell(h)), heap |-> Alloc(h, "generator", 0),
          ctx |-> e, fail |-> FALSE]}
   ELSE {})
  \cup {[f |-> f, val |-> r.val, heap |-> r.heap, ctx |-> r.ctx, fail |-> TRUE] :
          r \in Raised(h, e, TRUE)}

\* vm_loop returns the completion value res to vm_execute, the frame being f
LeaveLoop(f, h, e, res) ==
  /\ frames' = SetTop(f)
  /\ heap' = h
  /\ jcontext' = e
  /\ completion' = res
  /\ phase' = "exec"
  /\ UNCHANGED <<left_value, right_value, result>>

VM_OC_CREATE_GENERATOR ==
  /\ At("CREATE_GENERATOR")
  /\ \E o \in opfunc_create_executable_object(
               [Advance(Top) EXCEPT !.call_operation = VM_EXEC_RETURN],
               heap, jcontext) :
       IF o.fail
       THEN GotoError(o.f, o.heap, o.ctx, ECMA_VALUE_UNDEFINED,
                      ECMA_VALUE_UNDEFINED, ECMA_VALUE_ERROR)
       ELSE LeaveLoop(o.f, o.heap, o.ctx, o.val)

\* the same with the byte-code cursor saved at the opcode, as the opcodes
\* that defer an operation to vm_execute save it
YieldSavedAtOpcode(f) ==
  [PopN(f, 1) EXCEPT !.call_operation = VM_EXEC_RETURN]

\* the frame VM_OC_YIELD saves: byte_code_p after the opcode, stack_top_p
\* below the value that is returned
YieldSaved(f) ==
  [PopN(Advance(f), 1) EXCEPT !.call_operation = VM_EXEC_RETURN]

VM_OC_YIELD ==
  /\ At("YIELD")
  /\ LeaveLoop(YieldSaved(Top), heap, jcontext, StackTop(Top, 1))

\* vm_execute, case VM_EXEC_RETURN: the completion value goes to the caller
\* and the frame stays as it is in its executable object
vm_execute_exec_return ==
  /\ phase = "exec"
  /\ Top.call_operation = VM_EXEC_RETURN
  /\ frames' = SubSeq(frames, 1, Len(frames) - 1)
  /\ heap' = [heap EXCEPT ![Top.executable_object].frame = <<Top>>]
  /\ jcontext' = [jcontext EXCEPT !.vm_top_context_p = Top.prev_context_p]
  /\ phase' = IF Len(frames) = 1 THEN "done" ELSE "ret"
  /\ UNCHANGED <<left_value, right_value, result, completion>>

\* opfunc_resume_executable_object, called by an external function with the
\* generator it was given: the value sent is pushed on the saved frame's
\* stack and vm_execute runs the frame
opfunc_resume_executable_object ==
  /\ phase = "exec"
  /\ Top.call_operation = VM_EXEC_CALL
  /\ CurIns(Top).x >= 1
  /\ IsPtr(CallFunc(Top)) /\ heap[CallFunc(Top).v].kind = "native"
  /\ IsPtr(CallArgs(Top)[1]) /\ heap[CallArgs(Top)[1].v].frame # <<>>
  /\ Len(frames) < MaxFrames
  /\ frames' = Append(frames, Chained(PushN(heap[CallArgs(Top)[1].v].frame[1],
                                            <<ECMA_VALUE_UNDEFINED>>),
                                      jcontext))
  /\ heap' = [heap EXCEPT ![CallArgs(Top)[1].v].frame = <<>>]
  /\ jcontext' = [jcontext EXCEPT !.calls = 1 - @,
                                  !.vm_top_context_p = Len(frames) + 1]
  /\ completion' = ECMA_VALUE_EMPTY
  /\ phase' = "loop"
  /\ UNCHANGED <<left_value, right_value, result>>

(***************************************************************************)
(* super (...): VM_OC_SUPER_CALL leaves vm_loop with the callee and the    *)
(* arguments on the stack, vm_execute runs vm_super_call.                  *)
(***************************************************************************)
VM_OC_SUPER_CALL ==
  /\ At("SUPER_CALL")
  /\ frames' = SetTop([Top EXCEPT !.call_operation = VM_EXEC_SUPER_CALL])
  /\ completion' = ECMA_VALUE_UNDEFINED
  /\ phase' = "exec"
  /\ UNCHANGED <<heap, jcontext, left_value, right_value, result>>

ecma_op_this_binding_is_initialized(prop) == prop # ECMA_VALUE_UNINITIALIZED
ecma_is_constructor(h, v) == IsPtr(v) /\ h[v.v].kind \in {"function", "native"}

\* ecma_op_function_construct: the constructor runs and hands back an object
\* (here the one the global object holds, with a reference of its own) or
\* throws
ecma_op_function_construct(h, e) ==
  LET e1 == [e EXCEPT !.constructs = 1 - @]
  IN {Outcome(Ptr(2), CopyRef(h, Ptr(2)), e1, FALSE)} \cup Raised(h, e1, TRUE)

\* ecma_op_object_get_by_magic_id (new_target, "prototype"): an object, some
\* other value, or the getter throws
ecma_op_object_get_by_magic_id(h, e) ==
  {Outcome(v, CopyRef(h, v), e, FALSE) : v \in {Ptr(2), ECMA_VALUE_UNDEFINED}}
  \cup Raised(h, e, TRUE)

\* super (...) without the test of the this binding
SuperCompletionRepeatable(f, h, e) ==
  IF ~ecma_is_constructor(h, CallFunc(f))
  THEN ecma_raise_type_error(h, e)
  ELSE ecma_op_function_construct(h, e)

\* super (...) with the test of the constructor first
SuperCompletionConstructorFirst(f, h, e) ==
  IF ~ecma_is_constructor(h, CallFunc(f))
  THEN ecma_raise_type_error(h, e)
  ELSE IF ecma_op_this_binding_is_initialized(f.this_prop)
       THEN ecma_raise_reference_error(h, e)
       ELSE ecma_op_function_construct(h, e)

\* the completion value of super (...): the first part of vm_super_call
SuperCompletion(f, h, e) ==
  IF ecma_op_this_binding_is_initialized(f.this_prop)
  THEN ecma_raise_reference_error(h, e)
  ELSE IF ~ecma_is_constructor(h, CallFunc(f))
       THEN ecma_raise_type_error(h, e)
       ELSE UNION {
              IF IsPtr(c.val)
              THEN {IF p.fail
                    THEN Outcome(ECMA_VALUE_ERROR, FreeRef(p.heap, c.val), p.ctx, TRUE)
                    ELSE Outcome(c.val, FreeRef(p.heap, p.val), p.ctx, FALSE) :
                      p \in ecma_op_object_get_by_magic_id(c.heap, c.ctx)}
              ELSE {c} :
                c \in ecma_op_function_construct(h, e)}

\* the rest of vm_super_call: the arguments and the callee are released and
\* the completion value is routed
SuperTail(f, h, e, completion_value) ==
  LET ins == CurIns(f)
      h1 == FreeRef(FreeAll(h, CallArgs(f)), CallFunc(f))
      f1 == PopN(f, ins.x + 1)
  IN IF ECMA_IS_VALUE_ERROR(completion_value)
     THEN State([f1 EXCEPT !.error_code = TRUE], h1, e)
     ELSE LET f2 == Advance([f1 EXCEPT !.this_prop = completion_value,
                                       !.this_binding = completion_value])
          IN IF ins.put \cap {"STACK", "BLOCK"} = {}
             THEN State(f2, FreeRef(h1, completion_value), e)
             ELSE State(PutStackOrBlock(f2, h1, completion_value, ins).f,
                        PutStackOrBlock(f2, h1, completion_value, ins).heap, e)

\* vm_execute, case VM_EXEC_SUPER_CALL
vm_super_call ==
  /\ phase = "exec"
  /\ Top.call_operation = VM_EXEC_SUPER_CALL
  /\ \E c \in SuperCompletion(Top, heap, jcontext) :
       Resume(SetTop(SuperTail(Top, c.heap, c.ctx, c.val).f),
              SuperTail(Top, c.heap, c.ctx, c.val))

(***************************************************************************)
(* new: VM_OC_NEW leaves vm_loop, vm_execute runs opfunc_construct.  The   *)
(* constructor's run is taken as a whole.                                  *)
(***************************************************************************)
VM_OC_NEW ==
  /\ At("NEW")
  /\ frames' = SetTop([Top EXCEPT !.call_operation = VM_EXEC_CONSTRUCT])
  /\ completion' = ECMA_VALUE_UNDEFINED
  /\ phase' = "exec"
  /\ UNCHANGED <<heap, jcontext, left_value, right_value, result>>

\* the completion value of new: the first part of opfunc_construct
ConstructCompletion(f, h, e) ==
  IF ~(ecma_is_value_object(h, CallFunc(f)) /\ ecma_is_constructor(h, CallFunc(f)))
  THEN ecma_raise_type_error(h, e)
  ELSE ecma_op_function_construct(h, e)

\* the rest of opfunc_construct: the arguments are released; the new object
\* takes the constructor's slot, or the constructor stays where it is
ConstructTail(f, h, e, completion_value) ==
  LET h1 == FreeAll(h, CallArgs(f))
      f1 == PopN(f, CurIns(f).x)
  IN IF ECMA_IS_VALUE_ERROR(completion_value)
     THEN State([f1 EXCEPT !.error_code = TRUE], h1, e)
     ELSE State(Advance([f1 EXCEPT !.stack[Len(f1.stack)] = completion_value]),
                FreeRef(h1, CallFunc(f)), e)

\* vm_execute, case VM_EXEC_CONSTRUCT
opfunc_construct ==
  /\ phase = "exec"
  /\ Top.call_operation = VM_EXEC_CONSTRUCT
  /\ \E c \in ConstructCompletion(Top, heap, jcontext) :
       Resume(SetTop(ConstructTail(Top, c.heap, c.ctx, c.val).f),
              ConstructTail(Top, c.heap, c.ctx, c.val))

(***************************************************************************)
(* Spread arguments: VM_OC_SPREAD_ARGUMENTS gathers the arguments into a   *)
(* collection and leaves vm_loop, vm_execute runs vm_spread_operation.     *)
(***************************************************************************)
VM_OC_PUSH_SPREAD_ELEMENT ==
  /\ At("PUSH_SPREAD_ELEMENT")
  /\ Continue(PushN(Advance(Top), <<ECMA_VALUE_SPREAD_ELEMENT>>), heap, jcontext)

\* what iterating a spread value to its end gives: the values it yields,
\* each with a reference of its own, or what the iteration throws
SpreadIterate(h, e) ==
  {[items |-> <<Ptr(1)>>, heap |-> CopyRef(h, Ptr(1)), ctx |-> e, fail |-> FALSE],
   [items |-> <<>>, heap |-> h, ctx |-> e, fail |-> FALSE]}
  \cup {[items |-> <<>>, heap |-> r.heap, ctx |-> r.ctx, fail |-> TRUE] :
          r \in Raised(h, e, TRUE)}

\* opfunc_spread_arguments, from the slots args still to read and the
\* collection buff so far: a value moves into the collection as it is; the
\* value after a spread marker is iterated and released; when its iteration
\* throws, the slots not yet read and the collection are released and there
\* is no collection
RECURSIVE opfunc_spread_arguments(_, _, _, _)
opfunc_spread_arguments(h, e, args, buff) ==
  IF args = <<>>
  THEN {[items |-> buff, heap |-> h, ctx |-> e, fail |-> FALSE]}
  ELSE IF Head(args) # ECMA_VALUE_SPREAD_ELEMENT
       THEN opfunc_spread_arguments(h, e, Tail(args), Append(buff, Head(args)))
       ELSE UNION {
              IF it.fail
              THEN {[items |-> <<>>,
                     heap |-> FreeAll(FreeAll(FreeRef(it.heap, args[2]),
                                              SubSeq(args, 3, Len(args))), buff),
                     ctx |-> it.ctx, fail |-> TRUE]}
              ELSE opfunc_spread_arguments(FreeRef(it.heap, args[2]), it.ctx,
                                           SubSeq(args, 3, Len(args)),
                                           buff \o it.items) :
              it \in SpreadIterate(h, e)}

VM_OC_SPREAD_ARGUMENTS ==
  /\ At("SPREAD_ARGUMENTS")
  /\ \E a \in opfunc_spread_arguments(heap, jcontext, CallArgs(Top), <<>>) :
       IF a.fail
       THEN GotoError(PopN(Top, CurIns(Top).x), a.heap, a.ctx,
                      ECMA_VALUE_UNDEFINED, ECMA_VALUE_UNDEFINED, ECMA_VALUE_ERROR)
       ELSE /\ frames' = SetTop([PushN(PopN(Top, CurIns(Top).x), <<ArgColl(a.items)>>)
                                   EXCEPT !.call_operation = VM_EXEC_SPREAD_OP])
            /\ heap' = a.heap
            /\ jcontext' = a.ctx
            /\ completion' = ECMA_VALUE_UNDEFINED
            /\ phase' = "exec"
            /\ UNCHANGED <<left_value, right_value, result>>

\* the collection on top of the stack and the function below it
SpreadCollection(f) == f.stack[Len(f.stack)]
SpreadFunc(f) == f.stack[Len(f.stack) - 1]

\* vm_spread_operation if it called or constructed with whatever it found
SpreadCompletionUnchecked(f, h, e) ==
  IF CurIns(f).args = "NEW"
  THEN ecma_op_function_construct(h, e)
  ELSE ecma_op_function_call(h, e)

\* the completion value of the spread operation: the first part of
\* vm_spread_operation
SpreadCompletion(f, h, e) ==
  IF CurIns(f).args = "NEW"
  THEN IF ~(ecma_is_value_object(h, SpreadFunc(f))
            /\ ecma_is_constructor(h, SpreadFunc(f)))
       THEN ecma_raise_type_error(h, e)
       ELSE ecma_op_function_construct(h, e)
  ELSE IF ~(ecma_is_value_object(h, SpreadFunc(f))
            /\ ecma_op_object_is_callable(h, SpreadFunc(f)))
       THEN ecma_raise_type_error(h, e)
       ELSE ecma_op_function_call(h, e)

\* the rest of vm_spread_operation: the collection and the function are
\* released and the completion value is routed
SpreadTail(f, h, e, completion_value) ==
  LET ins == CurIns(f)
      h1 == FreeRef(FreeAll(h, SpreadCollection(f).v), SpreadFunc(f))
      f1 == PopN(f, 2)
  IN IF ECMA_IS_VALUE_ERROR(completion_value)
     THEN State([f1 EXCEPT !.error_code = TRUE], h1, e)
     ELSE IF ins.put \cap {"STACK", "BLOCK"} = {}
          THEN State(Advance(f1), FreeRef(h1, completion_value), e)
          ELSE State(PutStackOrBlock(Advance(f1), h1, completion_value, ins).f,
                     PutStackOrBlock(Advance(f1), h1, completion_value, ins).heap, e)

\* the status flags once the callee of the spread operation has been
\* entered: the run of a byte-code function starts with vm_init_exec, which
\* clears the direct-eval status; eval runs a code unit or returns without
\* one; any other callee leaves the flags as they are
SpreadCalleeInit(f, h, e) ==
  IF ecma_op_object_is_callable(h, SpreadFunc(f)) /\ CurIns(f).args = "CALL"
  THEN CASE h[SpreadFunc(f).v].kind = "function" -> {[e EXCEPT !.direct_eval = FALSE]}
         [] h[SpreadFunc(f).v].kind = "eval" -> {[e EXCEPT !.direct_eval = FALSE], e}
         [] OTHER -> {e}
  ELSE {e}

\* vm_execute, case VM_EXEC_SPREAD_OP
vm_spread_operation ==
  /\ phase = "exec"
  /\ Top.call_operation = VM_EXEC_SPREAD_OP
  /\ \E e \in SpreadCalleeInit(Top, heap, jcontext) :
     \E c \in SpreadCompletion(Top, heap, e) :
       Resume(SetTop(SpreadTail(Top, c.heap, c.ctx, c.val).f),
              SpreadTail(Top, c.heap, c.ctx, c.val))

(***************************************************************************)
(* Who holds references: every place of the interpreter that owns a value. *)
(***************************************************************************)
RECURSIVE AllFrameValues(_)
AllFrameValues(fs) ==
  IF fs = <<>> THEN <<>> ELSE FrameValues(Head(fs)) \o AllFrameValues(Tail(fs))

\* what the frames saved in the cells from c on hold
RECURSIVE AllSavedValues(_)
AllSavedValues(c) ==
  IF c > MaxCells THEN <<>> ELSE SavedValues(heap[c]) \o AllSavedValues(c + 1)

HeldValues ==
  AllFrameValues(frames)
  \o AllSavedValues(1)
  \o <<left_value, right_value, result, completion>>
  \o (IF jcontext.exception THEN <<jcontext.error_value>> ELSE <<>>)
  \o [i \in 1..Len(jcontext.run_eval) |-> jcontext.run_eval[i].this_binding]

RECURSIVE Count(_, _)
Count(vs, c) ==
  IF vs = <<>> THEN 0
  ELSE (IF Head(vs) = Ptr(c) THEN 1 ELSE 0) + Count(Tail(vs), c)

\* the references held on cell c: by the interpreter, and by the literal
\* tables and the global object for the cells that exist from the start
Holders(c) == Count(HeldValues, c) + (IF c \in StaticCells THEN 1 ELSE 0)

Next ==
  \/ VM_OC_POP
  \/ VM_OC_POP_BLOCK
  \/ VM_OC_PUSH
  \/ VM_OC_PUSH_TWO
  \/ VM_OC_PUSH_THREE
  \/ VM_OC_PUSH_UNDEFINED
  \/ VM_OC_PUSH_TRUE
  \/ VM_OC_ASSIGN
  \/ VM_OC_PROP_GET
  \/ VM_OC_IDENT_REFERENCE
  \/ VM_OC_NEW
  \/ opfunc_construct
  \/ VM_OC_PUSH_SPREAD_ELEMENT
  \/ VM_OC_SPREAD_ARGUMENTS
  \/ vm_spread_operation
  \/ VM_OC_RETURN
  \/ VM_OC_EXT_RETURN
  \/ VM_OC_THROW
  \/ VM_OC_ERROR
  \/ VM_OC_JUMP
  \/ VM_OC_BRANCH_IF
  \/ VM_OC_TRY
  \/ VM_OC_CATCH
  \/ VM_OC_FINALLY
  \/ VM_OC_CONTEXT_END
  \/ VM_OC_JUMP_AND_EXIT_CONTEXT
  \/ VM_OC_WITH
  \/ VM_OC_BLOCK_CREATE_CONTEXT
  \/ VM_OC_FOR_IN_CREATE_CONTEXT
  \/ VM_OC_FOR_IN_GET_NEXT
  \/ VM_OC_FOR_IN_HAS_NEXT
  \/ VM_OC_FOR_OF_CREATE_CONTEXT
  \/ VM_OC_FOR_OF_GET_NEXT
  \/ VM_OC_FOR_OF_HAS_NEXT
  \/ VM_OC_CALL
  \/ ErrorLabel
  \/ opfunc_call_native
  \/ opfunc_call_run
  \/ vm_execute_return
  \/ opfunc_call_return
  \/ VM_OC_SUPER_CALL
  \/ VM_OC_TYPEOF
  \/ VM_OC_TYPEOF_IDENT
  \/ vm_super_call
  \/ VM_OC_CREATE_GENERATOR
  \/ VM_OC_YIELD
  \/ vm_execute_exec_return
  \/ opfunc_resume_executable_object

Spec == Init /\ [][Next]_vars

(***************************************************************************)
(* The arithmetic opcodes on their own: a frame of one of the arithmetic   *)
(* functions with any two operands of ArithOperands on its stack.          *)
(***************************************************************************)
ArithIntegers ==
  {ECMA_INTEGER_NUMBER_MIN, ECMA_INTEGER_NUMBER_MIN + 1,
   -(ECMA_INTEGER_MULTIPLY_MAX + 1), -ECMA_INTEGER_MULTIPLY_MAX,
   -3, -2, -1, 0, 1, 2, 3,
   ECMA_INTEGER_MULTIPLY_MAX, ECMA_INTEGER_MULTIPLY_MAX + 1,
   ECMA_INTEGER_NUMBER_MAX - 1, ECMA_INTEGER_NUMBER_MAX}
ArithOperands ==
  {IntValue(n) : n \in ArithIntegers}
  \cup {Float(TRUE, 0, 0), NumberOfInteger(ECMA_INTEGER_NUMBER_MAX + 1),
        ECMA_VALUE_UNDEFINED}

ArithInit ==
  /\ \E u \in ArithUnits, l \in ArithOperands, r \in ArithOperands :
       frames = << [vm_init_exec(u, <<>>) EXCEPT !.stack = <<l, r>>] >>
  /\ heap = InitHeap
  /\ jcontext = InitContext(FALSE, 1)
  /\ left_value = ECMA_VALUE_UNDEFINED
  /\ right_value = ECMA_VALUE_UNDEFINED
  /\ result = ECMA_VALUE_EMPTY
  /\ completion = ECMA_VALUE_EMPTY
  /\ phase = "loop"

ArithNext ==
  \/ VM_OC_ADD
  \/ VM_OC_SUB
  \/ VM_OC_MUL
  \/ VM_OC_MOD

ArithSpec == ArithInit /\ [][ArithNext]_vars

(***************************************************************************)
(* The bitwise opcodes on their own: a frame of one of the bitwise         *)
(* functions with any two operands of BitOperands on its stack (one for    *)
(* BIT_NOT).                                                               *)
(***************************************************************************)
BitIntegers ==
  {ECMA_INTEGER_NUMBER_MIN, ECMA_INTEGER_NUMBER_MIN + 1, -(2^26) - 1, -33, -32, -31,
   -6, -1, 0, 1, 3, 5, 27, 28, 31, 32, 33, 2^26 + 5, ECMA_INTEGER_NUMBER_MAX - 1,
   ECMA_INTEGER_NUMBER_MAX}
BitOperands ==
  {IntValue(n) : n \in BitIntegers}
  \cup {Float(TRUE, 0, 0), NumberOfInteger(ECMA_INTEGER_NUMBER_MAX + 1),
        NumberOfInteger(ECMA_INTEGER_NUMBER_MIN - 1), ECMA_NUMBER_NAN,
        ECMA_VALUE_UNDEFINED, Ptr(2)}

BitInit ==
  /\ \E u \in BitUnits, l \in BitOperands, r \in BitOperands :
       /\ u = "BIT_NOT" => l = r
       /\ frames = << [vm_init_exec(u, <<>>) EXCEPT
                         !.stack = IF u = "BIT_NOT" THEN <<l>> ELSE <<l, r>>] >>
       /\ heap = CopyAll(InitHeap, IF u = "BIT_NOT" THEN <<l>> ELSE <<l, r>>)
  /\ jcontext = InitContext(FALSE, 1)
  /\ left_value = ECMA_VALUE_UNDEFINED
  /\ right_value = ECMA_VALUE_UNDEFINED
  /\ result = ECMA_VALUE_EMPTY
  /\ completion = ECMA_VALUE_EMPTY
  /\ phase = "loop"

BitNext ==
  \/ VM_OC_BIT_NOT
  \/ VM_OC_BIT_OR
  \/ VM_OC_BIT_XOR
  \/ VM_OC_BIT_AND
  \/ VM_OC_LEFT_SHIFT
  \/ VM_OC_RIGHT_SHIFT
  \/ VM_OC_UNS_RIGHT_SHIFT

BitSpec == BitInit /\ [][BitNext]_vars

(***************************************************************************)
(* LESS and the branch after it on their own: a frame at the LESS of one   *)
(* of the loops, with any two operands of LessOperands on its stack, in an *)
(* engine built with or without JERRY_VM_EXEC_STOP.                        *)
(***************************************************************************)
LessOperands ==
  {IntValue(n) : n \in {ECMA_INTEGER_NUMBER_MIN, -1, 0, 1, 2, ECMA_INTEGER_NUMBER_MAX}}
  \cup {Float(TRUE, 0, 0), NumberOfInteger(ECMA_INTEGER_NUMBER_MAX + 1),
        ECMA_NUMBER_NAN, ECMA_VALUE_UNDEFINED, Ptr(1), Ptr(2)}

LessInit ==
  /\ \E u \in LessUnits, l \in LessOperands, r \in LessOperands :
       /\ frames = << [vm_init_exec(u, <<>>) EXCEPT !.pc = BranchDistance(u),
                                                    !.stack = <<l, r>>] >>
       /\ heap = CopyAll(InitHeap, <<l, r>>)
  /\ \E exec_stop \in BOOLEAN, cb \in BOOLEAN :
       /\ cb => exec_stop
       /\ jcontext = [InitContext(cb, 1) EXCEPT !.JERRY_VM_EXEC_STOP = exec_stop]
  /\ left_value = ECMA_VALUE_UNDEFINED
  /\ right_value = ECMA_VALUE_UNDEFINED
  /\ result = ECMA_VALUE_EMPTY
  /\ completion = ECMA_VALUE_EMPTY
  /\ phase = "loop"

LessNext ==
  \/ VM_OC_LESS
  \/ VM_OC_BRANCH_IF

LessSpec == LessInit /\ [][LessNext]_vars

(***************************************************************************)
(* The embedder of the proxy test: a proxy whose handler has handler_get   *)
(* and handler_set as its traps, next to a plain object and an array, read *)
(* and written by scripts (jerry_run) and through the API (get_property,   *)
(* set_property), up to MaxAccesses times.                                 *)
(***************************************************************************)
MaxAccesses == 7
\* the name "value", which the plain object has as a data property
ValueName == [t |-> "name", v |-> 1]
HandlerGetFunction == Ptr(5)
HandlerSetFunction == Ptr(6)
ProxyHandlerObject == Ptr(7)
ProxyObject == Ptr(8)
ProxyTargetObject == Ptr(2)
FastArray == Ptr(9)
ProxyCell(kind, refs, code, items) ==
  [refs |-> refs, kind |-> kind, code |-> code, names |-> {}, frame |-> <<>>,
   items |-> items]
\* jerry_create_external_function, jerry_create_object, jerry_create_proxy
\* and the properties of the global object the test has set
ProxyHeap ==
  [InitHeap EXCEPT
     ![2] = [@ EXCEPT !.refs = 2, !.names = {1}],
     ![5] = ProxyCell("native", 1, "handler_get", <<>>),
     ![6] = ProxyCell("native", 1, "handler_set", <<>>),
     ![7] = ProxyCell("object", 2, 0, <<HandlerGetFunction, HandlerSetFunction>>),
     ![8] = ProxyCell("proxy", 2, 0, <<ProxyTargetObject, ProxyHandlerObject>>),
     ![9] = ProxyCell("array", 1, 0, <<IntValue(7), ECMA_VALUE_ARRAY_HOLE>>)]

\* the objects read and written, and the properties of each
AccessObjects == {ProxyObject, ProxyTargetObject, FastArray}
AccessNames(object) ==
  IF object = FastArray THEN {IntValue(0), IntValue(1), ValueName} ELSE {ValueName}
\* the values written: 55 and 12
AccessValues == {IntValue(55), IntValue(12)}
Access(by, op, object, name, value) ==
  [by |-> by, op |-> op, object |-> object, name |-> name, value |-> value]
Accesses(by) ==
  {Access(by, "get", object, name, ECMA_VALUE_UNDEFINED) :
     object \in AccessObjects, name \in {ValueName, IntValue(0), IntValue(1)}}
  \cup {Access(by, "set", object, ValueName, value) :
          object \in AccessObjects \ {FastArray}, value \in AccessValues}

\* jerry_release_value of what the last access returned: the value, or the
\* error it has thrown
ReleasedHeap == 
  IF jcontext.exception THEN FreeRef(heap, jcontext.error_value)
  ELSE FreeRef(heap, completion)
ReleasedContext(by) ==
  [(IF jcontext.exception THEN jcontext_take_exception(jcontext) ELSE jcontext)
     EXCEPT !.accesses = @ + 1, !.access = by, !.prop_path = <<>>]
Idle == phase = "done" /\ frames = <<>> /\ jcontext.accesses < MaxAccesses

\* jerry_run of the parsed script, up to its property access
jerry_run ==
  /\ Idle
  /\ \E a \in Accesses("jerry_run") :
       /\ a.name \in AccessNames(a.object)
       /\ LET operands == IF a.op = "get" THEN <<a.object, a.name>>
                          ELSE <<a.object, a.name, a.value>>
          IN /\ frames' = << [vm_init_exec(IF a.op = "get" THEN "PGET" ELSE "PSET", <<>>)
                                EXCEPT !.stack = operands] >>
             /\ heap' = CopyAll(ReleasedHeap, operands)
       /\ jcontext' = [ReleasedContext(a) EXCEPT !.vm_top_context_p = 1]
  /\ completion' = ECMA_VALUE_EMPTY
  /\ phase' = "loop"
  /\ UNCHANGED <<left_value, right_value, result>>

\* jerry_get_property: ecma_op_object_get of the object
jerry_get_property(h, e, object, name) ==
  ecma_op_object_get(h, e, object,
                     IF ecma_is_value_integer_number(name)
                     THEN DirectUintString(name.v) ELSE name)
\* jerry_set_property: ecma_op_object_put of the object
jerry_set_property(h, e, object, name, value) ==
  ecma_op_object_put_with_receiver(h, e, object, name, value, object)

\* get_property of the test
get_property ==
  /\ Idle
  /\ \E a \in Accesses("get_property") :
       /\ a.op = "get" /\ a.name \in AccessNames(a.object)
       /\ \E r \in jerry_get_property(ReleasedHeap, ReleasedContext(a), a.object, a.name) :
            /\ heap' = r.heap
            /\ jcontext' = r.ctx
            /\ completion' = r.val
  /\ UNCHANGED <<frames, left_value, right_value, result, phase>>

\* set_property of the test
set_property ==
  /\ Idle
  /\ \E a \in Accesses("set_property") :
       /\ a.op = "set"
       /\ \E r \in jerry_set_property(ReleasedHeap, ReleasedContext(a), a.object, a.name,
                                      a.value) :
            /\ heap' = r.heap
            /\ jcontext' = r.ctx
            /\ completion' = r.val
  /\ UNCHANGED <<frames, left_value, right_value, result, phase>>

ProxyInit ==
  /\ frames = <<>>
  /\ heap = ProxyHeap
  /\ \E lcache \in BOOLEAN :
       jcontext = [InitContext(FALSE, 1) EXCEPT !.JERRY_LCACHE = lcache,
                                                !.vm_top_context_p = 0]
  /\ left_value = ECMA_VALUE_UNDEFINED
  /\ right_value = ECMA_VALUE_UNDEFINED
  /\ result = ECMA_VALUE_EMPTY
  /\ completion = ECMA_VALUE_EMPTY
  /\ phase = "done"

ProxyNext ==
  \/ jerry_run
  \/ get_property
  \/ set_property
  \/ VM_OC_PROP_GET
  \/ VM_OC_ASSIGN
  \/ VM_OC_POP_BLOCK
  \/ VM_OC_RETURN
  \/ ErrorLabel
  \/ vm_execute_return

ProxySpec == ProxyInit /\ [][ProxyNext]_vars

(***************************************************************************)
(* Block scopes and handlers on their own: a frame that runs L or TT, in   *)
(* the environment of its function or in an environment of its own.       *)
(***************************************************************************)
EnvInit ==
  /\ \E lex_env \in {<<>>, <<ecma_create_decl_lex_env>>,
                      <<ecma_create_decl_lex_env, ecma_create_decl_lex_env>>} :
       \E u \in {"L", "TT"} :
         frames = << vm_run(InitHeap, u, ECMA_VALUE_UNDEFINED, lex_env, <<>>, FALSE) >>
  /\ heap = InitHeap
  /\ \E cb \in BOOLEAN : jcontext = InitContext(cb, 1)
  /\ left_value = ECMA_VALUE_UNDEFINED
  /\ right_value = ECMA_VALUE_UNDEFINED
  /\ result = ECMA_VALUE_EMPTY
  /\ completion = ECMA_VALUE_EMPTY
  /\ phase = "loop"

EnvNext ==
  \/ VM_OC_TRY
  \/ VM_OC_PUSH
  \/ VM_OC_POP
  \/ VM_OC_WITH
  \/ VM_OC_BLOCK_CREATE_CONTEXT
  \/ VM_OC_BRANCH_IF
  \/ VM_OC_JUMP_AND_EXIT_CONTEXT
  \/ VM_OC_RETURN
  \/ VM_OC_THROW
  \/ VM_OC_CATCH
  \/ VM_OC_FINALLY
  \/ VM_OC_CONTEXT_END
  \/ ErrorLabel
  \/ vm_execute_return

EnvSpec == EnvInit /\ [][EnvNext]_vars

(***************************************************************************)
(* The forms of a call on their own: a frame about to run one of the calls *)
(* of FORMS, with the callee, its arguments and, for a property call, the  *)
(* base and the property name on its stack.  The callee is the external    *)
(* function, a byte-code function, or a value that cannot be called.       *)
(***************************************************************************)
MaxCallArgs == 2
FormArguments == {IntValue(1), Ptr(1), Ptr(2)}
FormArgumentLists == UNION {[1..n -> FormArguments] : n \in 0..MaxCallArgs}
FormHeap == Alloc(InitHeap, "function", "H01")
FormCallees == {Ptr(3), Ptr(NewCell(InitHeap)), Ptr(2), ECMA_VALUE_UNDEFINED}

\* the stack of the caller: the slots of an enclosing expression, the
\* reference of a property call, the callee and the arguments
FormStack(k, below, func, args) ==
  below \o (IF k >= 3 THEN <<Ptr(2), Ptr(1)>> ELSE <<>>) \o <<func>> \o args

FormsInit ==
  /\ \E k \in 0..5, args \in FormArgumentLists, func \in FormCallees,
        below \in {<<>>, <<Ptr(2)>>},
        block_result \in {ECMA_VALUE_UNDEFINED, Ptr(2)} :
       /\ frames = << [vm_init_exec("FORMS", <<>>) EXCEPT
                         !.pc = 12 * Len(args) + 2 * k + 1,
                         !.stack = FormStack(k, below, func, args),
                         !.block_result = block_result] >>
       /\ heap = FreeRef(CopyAll(FormHeap, FormStack(k, below, func, args)
                                           \o <<block_result>>),
                         Ptr(NewCell(InitHeap)))
  /\ jcontext = InitContext(FALSE, 1)
  /\ left_value = ECMA_VALUE_UNDEFINED
  /\ right_value = ECMA_VALUE_UNDEFINED
  /\ result = ECMA_VALUE_EMPTY
  /\ completion = ECMA_VALUE_EMPTY
  /\ phase = "loop"

FormsNext ==
  \/ VM_OC_CALL
  \/ opfunc_call_native
  \/ opfunc_call_run
  \/ opfunc_call_return
  \/ VM_OC_RETURN
  \/ VM_OC_ERROR
  \/ ErrorLabel
  \/ vm_execute_return

FormsSpec == FormsInit /\ [][FormsNext]_vars

(***************************************************************************)
(* Calls in the form of a direct eval: a frame about to run CBC_EVAL and   *)
(* one of the calls of EVALCALL, with the callee and its argument on its   *)
(* stack.  The callee is the external function, a byte-code function, the  *)
(* eval function, or a value that cannot be called.                        *)
(***************************************************************************)
EvalCallees == {Ptr(3), Ptr(NewCell(InitHeap)), Ptr(2), ECMA_VALUE_UNDEFINED}
EvalCallStack(k, below, func, arg) ==
  below \o (IF k = 1 THEN <<Ptr(2), Ptr(1)>> ELSE <<>>) \o <<func>>
  \o (IF k = 2 THEN <<ECMA_VALUE_SPREAD_ELEMENT>> ELSE <<>>) \o <<arg>>

EvalCallInit ==
  /\ \E k \in 0..2, func \in EvalCallees, below \in {<<>>, <<Ptr(2)>>},
        arg \in {Ptr(1), Ptr(2)}, kind \in {"function", "eval"},
        this_binding \in {ECMA_VALUE_UNDEFINED, Ptr(2)},
        lex_env \in {<<>>, <<DeclEnv>>} :
       /\ frames = << [vm_run(InitHeap, "EVALCALL", this_binding, lex_env, <<>>,
                              FALSE) EXCEPT
                         !.pc = 3 * k + 1,
                         !.stack = EvalCallStack(k, below, func, arg)] >>
       /\ heap = FreeRef(CopyAll(Alloc(InitHeap, kind,
                                       IF kind = "function" THEN "H01" ELSE 0),
                                 EvalCallStack(k, below, func, arg)),
                         Ptr(NewCell(InitHeap)))
  /\ \E debugger \in BOOLEAN :
       jcontext = [InitContext(FALSE, 1) EXCEPT !.JERRY_DEBUGGER = debugger]
  /\ left_value = ECMA_VALUE_UNDEFINED
  /\ right_value = ECMA_VALUE_UNDEFINED
  /\ result = ECMA_VALUE_EMPTY
  /\ completion = ECMA_VALUE_EMPTY
  /\ phase = "loop"

EvalCallNext ==
  \/ VM_OC_EVAL
  \/ VM_OC_CALL
  \/ opfunc_call_native
  \/ opfunc_call_run
  \/ vm_run_eval
  \/ opfunc_call_return
  \/ VM_OC_SPREAD_ARGUMENTS
  \/ vm_spread_operation
  \/ VM_OC_RETURN
  \/ VM_OC_ERROR
  \/ ErrorLabel
  \/ vm_execute_return

EvalCallSpec == EvalCallInit /\ [][EvalCallNext]_vars

(***************************************************************************)
(* Super calls on their own: the constructor SS from its first opcode on,  *)
(* called as a constructor (the this binding of a derived class starts     *)
(* uninitialized).                                                         *)
(***************************************************************************)
SuperInit ==
  /\ frames = << vm_init_exec("SS", <<>>) >>
  /\ \E ns \in SUBSET (1..MaxNames) : heap = WithNames(InitHeap, ns)
  /\ \E cb \in BOOLEAN : jcontext = InitContext(cb, 1)
  /\ left_value = ECMA_VALUE_UNDEFINED
  /\ right_value = ECMA_VALUE_UNDEFINED
  /\ result = ECMA_VALUE_EMPTY
  /\ completion = ECMA_VALUE_EMPTY
  /\ phase = "loop"

SuperNext ==
  \/ VM_OC_TRY
  \/ VM_OC_PUSH_TWO
  \/ VM_OC_SUPER_CALL
  \/ vm_super_call
  \/ VM_OC_ERROR
  \/ ErrorLabel
  \/ VM_OC_CATCH
  \/ VM_OC_POP
  \/ VM_OC_CONTEXT_END
  \/ VM_OC_ASSIGN
  \/ VM_OC_RETURN
  \/ vm_execute_return

SuperSpec == SuperInit /\ [][SuperNext]_vars

(***************************************************************************)
(* Assignments through an identifier reference on their own: a frame about *)
(* to run one of the statements of REF, with any two of RefValues in its   *)
(* registers.                                                              *)
(***************************************************************************)
RefValues ==
  {ECMA_VALUE_UNDEFINED, IntValue(1), IntValue(ECMA_INTEGER_NUMBER_MAX), Ptr(1), Ptr(2)}

RefInit ==
  /\ \E k \in 0..8, r1 \in RefValues, r2 \in RefValues :
       /\ frames = << [vm_init_exec("REF", <<>>) EXCEPT
                         !.pc = 5 * k + 1, !.regs = <<r1, r2>>] >>
       /\ heap = CopyAll(InitHeap, <<r1, r2>>)
  /\ jcontext = InitContext(FALSE, 1)
  /\ left_value = ECMA_VALUE_UNDEFINED
  /\ right_value = ECMA_VALUE_UNDEFINED
  /\ result = ECMA_VALUE_EMPTY
  /\ completion = ECMA_VALUE_EMPTY
  /\ phase = "loop"

RefNext ==
  \/ VM_OC_IDENT_REFERENCE
  \/ VM_OC_PUSH
  \/ VM_OC_ADD
  \/ VM_OC_ASSIGN

RefSpec == RefInit /\ [][RefNext]_vars

(***************************************************************************)
(* Increments and decrements on their own: a frame about to run one of the *)
(* opcodes of INCR, with any of NumberPropertyValues in the first register *)
(* and the reference to the number property on the stack of a property     *)
(* form.                                                                   *)
(***************************************************************************)
IncrInit ==
  /\ \E k \in 0..23, v \in NumberPropertyValues :
       /\ frames = << [vm_init_exec("INCR", <<>>) EXCEPT
                         !.pc = 2 * k + 1,
                         !.regs[1] = v,
                         !.stack = IF k < 12 THEN <<Ptr(2), NumberProperty>>
                                   ELSE <<>>] >>
       /\ heap = CopyAll(InitHeap, <<v>> \o (IF k < 12 THEN <<Ptr(2)>> ELSE <<>>))
  /\ jcontext = InitContext(FALSE, 1)
  /\ left_value = ECMA_VALUE_UNDEFINED
  /\ right_value = ECMA_VALUE_UNDEFINED
  /\ result = ECMA_VALUE_EMPTY
  /\ completion = ECMA_VALUE_EMPTY
  /\ phase = "loop"

IncrNext ==
  \/ VM_OC_PRE_INCR
  \/ VM_OC_PROP_PRE_INCR

IncrSpec == IncrInit /\ [][IncrNext]_vars

(***************************************************************************)
(* Calls on their own: a frame that has left vm_loop at a call of a        *)
(* function or of eval, with the callee and up to MaxArgs arguments on its *)
(* stack.                                                                  *)
(***************************************************************************)
MaxArgs == 3
RunArguments == {ECMA_VALUE_UNDEFINED, IntValue(1), Ptr(2)}
RunArgumentLists == UNION {[1..n -> RunArguments] : n \in 0..MaxArgs}

\* the heap with the callee in its first free cell
RunHeap(kind, code, args) == CopyAll(Alloc(InitHeap, kind, code), args)

RunCaller(this_binding, lex_env, args) ==
  [vm_run(InitHeap, CallUnits[Len(args) + 1], this_binding, lex_env, <<>>, FALSE)
     EXCEPT !.stack = <<Ptr(NewCell(InitHeap))>> \o args,
            !.call_operation = VM_EXEC_CALL]

RunInit ==
  /\ \E this_binding \in {ECMA_VALUE_UNDEFINED, ecma_builtin_get_global},
        lex_env \in {<<>>, <<DeclEnv>>} :
       \/ \E u \in CalledUnits, args \in RunArgumentLists :
            /\ frames = << RunCaller(this_binding, lex_env, args) >>
            /\ heap = RunHeap("function", u, args)
       \/ /\ frames = << RunCaller(this_binding, lex_env, <<Ptr(1)>>) >>
          /\ heap = RunHeap("eval", 0, <<Ptr(1)>>)
  /\ \E direct_eval \in BOOLEAN :
       jcontext = [InitContext(FALSE, 1) EXCEPT !.direct_eval = direct_eval]
  /\ left_value = ECMA_VALUE_UNDEFINED
  /\ right_value = ECMA_VALUE_UNDEFINED
  /\ result = ECMA_VALUE_EMPTY
  /\ completion = ECMA_VALUE_UNDEFINED
  /\ phase = "exec"

RunNext ==
  \/ opfunc_call_run
  \/ vm_run_eval

RunSpec == RunInit /\ [][RunNext]_vars

(***************************************************************************)
(* Properties.                                                             *)
(***************************************************************************)
\* vm_loop has returned a final result to vm_execute
FinalReturn == phase = "exec" /\ Top.call_operation = VM_NO_EXEC_OP

\* C1: whenever vm_loop returns a final result (call_operation is
\* VM_NO_EXEC_OP), the frame's context_depth is 0 and its stack top is at
\* register_base + register_end: every context record and every operand is
\* gone
C1_FinalReturnUnwound ==
  FinalReturn => (Top.context_depth = 0 /\ Len(Top.stack) = 0)

\* a return from inside a finally block of B, whose records were aborted
C1_Witness ==
  FinalReturn /\ Top.unit = "B" /\ completion = Ptr(1)

\* C2: every owned value placed in a register, an operand-stack slot,
\* block_result or the left/right temporaries is released exactly once or
\* handed on exactly once on every path: at every point the reference count
\* of each cell equals the number of places that hold it, so nothing is
\* released twice and nothing is left behind
C2_ReferencesBalanced ==
  \A c \in Cells : heap[c].refs = Holders(c)

\* PUSH_THREE_LITERALS whose third literal failed: the first literal is on
\* the stack, the second still in right_value
C2_Witness ==
  /\ phase = "error" /\ Top.unit = "T" /\ Top.pc = 1
  /\ right_value = Ptr(1) /\ Top.stack = <<Ptr(2)>>

\* C3: in every reachable state no register and no operand-stack slot of
\* any frame holds the ERROR sentinel
C3_NoErrorOnStacks ==
  \A i \in 1..Len(frames) :
    /\ \A k \in 1..Len(frames[i].regs) : ~ECMA_IS_VALUE_ERROR(frames[i].regs[k])
    /\ \A k \in 1..Len(frames[i].stack) : ~ECMA_IS_VALUE_ERROR(frames[i].stack[k])

\* the slots a context record of the given type takes on the stack
RecordSize(kind) ==
  CASE kind \in {"TRY", "CATCH", "FINALLY_JUMP", "FINALLY_THROW",
                 "FINALLY_RETURN"} -> PARSER_TRY_CONTEXT_STACK_ALLOCATION
    [] kind = "WITH" -> PARSER_WITH_CONTEXT_STACK_ALLOCATION
    [] kind = "BLOCK" -> PARSER_BLOCK_CONTEXT_STACK_ALLOCATION
    [] kind = "FOR_IN" -> PARSER_FOR_IN_CONTEXT_STACK_ALLOCATION
    [] kind = "FOR_OF" -> PARSER_FOR_OF_CONTEXT_STACK_ALLOCATION

\* the total size of the records whose tag words lie in stack[1..n]
RECURSIVE RecordsSize(_, _)
RecordsSize(stack, n) ==
  IF n = 0 THEN 0
  ELSE RecordsSize(stack, n - 1)
         + (IF IsCtx(stack[n]) THEN RecordSize(stack[n].kind) ELSE 0)

\* stack[1..d] is a sequence of whole records, each with its tag on top
RECURSIVE WholeRecords(_, _)
WholeRecords(stack, d) ==
  \/ d = 0
  \/ /\ d > 0
     /\ IsCtx(stack[d])
     /\ RecordSize(stack[d].kind) <= d
     /\ \A k \in (d - RecordSize(stack[d].kind) + 1)..(d - 1) : ~IsCtx(stack[k])
     /\ WholeRecords(stack, d - RecordSize(stack[d].kind))

\* C4: between any two opcodes, in every frame, context_depth equals the
\* total size of the context records on the frame stack, the records lie
\* directly above the registers and the operands above the records, so the
\* stack top is at register_end + context_depth + operand-stack depth
C4_ContextDepthIsRecordsSize ==
  \A i \in 1..Len(frames) :
    LET f == frames[i] IN
      /\ f.context_depth = RecordsSize(f.stack, Len(f.stack))
      /\ f.context_depth <= Len(f.stack)
      /\ WholeRecords(f.stack, f.context_depth)

\* C: inside with and for-in, five slots of records below one operand
C4_Witness ==
  /\ phase = "loop" /\ Top.unit = "C"
  /\ Top.context_depth = PARSER_WITH_CONTEXT_STACK_ALLOCATION
                           + PARSER_FOR_IN_CONTEXT_STACK_ALLOCATION
  /\ Operands(Top) = 1

PendingAbort ==
  jcontext_has_pending_exception(jcontext) /\ jcontext_has_pending_abort(jcontext)

\* C5: while an exception is pending with the abort flag set, error
\* handling in a frame enters no catch and no finally body: it removes every
\* context record of the frame and returns ERROR from vm_loop; the frame is
\* left, the caller resumes at the error opcode only, and so on until the
\* outermost run has returned ERROR with the abort still pending
C5_AbortBypassesHandlers ==
  [][PendingAbort =>
       /\ jcontext_has_pending_exception(jcontext')
       /\ jcontext_has_pending_abort(jcontext')
       /\ phase = "loop" => (Top.error_code /\ phase' = "error")
       /\ phase = "error" =>
            /\ phase' = "exec" /\ completion' = ECMA_VALUE_ERROR
            /\ Len(frames') = Len(frames)
            /\ frames'[Len(frames')].context_depth = 0
            /\ frames'[Len(frames')].call_operation = VM_NO_EXEC_OP
       /\ phase = "exec" =>
            /\ completion' = ECMA_VALUE_ERROR
            /\ Len(frames') = Len(frames) - 1
            /\ phase' = (IF Len(frames) = 1 THEN "done" ELSE "ret")
       /\ phase = "ret" =>
            /\ phase' = "loop" /\ Len(frames') = Len(frames)
            /\ frames'[Len(frames')].error_code]_vars

\* the abort raised in the callee F has reached the caller D inside its try
\* block
C5_Witness ==
  /\ PendingAbort /\ phase = "error" /\ Len(frames) = 1
  /\ Top.unit = "D" /\ Top.context_depth > 0

\* C6 as stated: a non-undefined result of the stop callback that is not
\* marked as an abort is pending as an ordinary exception, without the abort
\* flag, so that an enclosing try/catch can catch it
C6_UnmarkedResultCatchable ==
  (jcontext_has_pending_exception(jcontext)
     /\ jcontext.stop_last \in {"value", "error"})
    => ~jcontext_has_pending_abort(jcontext)

\* C6: every non-undefined result of the stop callback, marked as an abort
\* or not, is pending with the abort flag set from the moment it is raised;
\* no catch or finally body runs afterwards, the only opcode executed is
\* the error opcode a caller resumes at
C6_StopResultAlwaysAborts ==
  jcontext.stop_last \in StopResults \ {"undefined"} =>
    /\ PendingAbort
    /\ phase = "loop" => Top.error_code

\* an error reference that is not marked as an abort, returned while F is
\* inside its try block
C6_Witness ==
  /\ phase = "error" /\ Top.unit = "F" /\ Top.context_depth > 0
  /\ jcontext.stop_last = "error" /\ PendingAbort

\* the opcode about to run is a backward branch and a stop callback is
\* registered
StopChecked ==
  phase = "loop" /\ CurIns(Top).bwd /\ jcontext.vm_exec_stop_cb

StopCallbackCalled == jcontext'.stop_calls # jcontext.stop_calls

\* C7: the stop counter changes and the stop callback is called only by a
\* backward-branch opcode with a callback registered; as long as the
\* callback has returned undefined, such an opcode, taken or not, calls it
\* exactly when it is the frequency-th backward branch since the last call
\* (or the start), a call that returns undefined resets the counter to
\* frequency, and without a call the counter goes down by one
C7_StopCallbackEveryFrequency ==
  [][/\ (StopCallbackCalled
          \/ jcontext'.vm_exec_stop_counter # jcontext.vm_exec_stop_counter)
         => StopChecked
     /\ (StopChecked /\ jcontext.stop_last \in {"none", "undefined"}) =>
          /\ StopCallbackCalled <=>
               jcontext.bwd_since = jcontext.vm_exec_stop_frequency - 1
          /\ (StopCallbackCalled /\ jcontext'.stop_last = "undefined") =>
               jcontext'.vm_exec_stop_counter = jcontext.vm_exec_stop_frequency
          /\ ~StopCallbackCalled =>
               jcontext'.vm_exec_stop_counter = jcontext.vm_exec_stop_counter - 1]_vars

\* frequency 2: the callback has been called, has returned undefined, and
\* one more backward branch has been counted since
C7_Witness ==
  /\ phase = "loop" /\ jcontext.vm_exec_stop_frequency = 2
  /\ jcontext.stop_last = "undefined" /\ jcontext.bwd_since = 1
  /\ jcontext.vm_exec_stop_counter = 1

\* the error label is about to handle an exception that is not an abort
ThrowHandled ==
  /\ phase = "error" /\ ECMA_IS_VALUE_ERROR(result)
  /\ jcontext_has_pending_exception(jcontext)
  /\ ~jcontext_has_pending_abort(jcontext)

\* the frame f has just received the value v in a catch block
InCatchBody(f, v) ==
  /\ f.context_depth > 0 /\ IsCtx(f.stack[f.context_depth])
  /\ f.stack[f.context_depth].kind = "CATCH"
  /\ Operands(f) = 1 /\ StackTop(f, 1) = v
  /\ f.byte_code_start_p[f.pc - 1].group = "CATCH"

\* the frame f has just received the value v in a finally block
InFinallyBody(f, v, kind) ==
  /\ f.context_depth > 0 /\ IsCtx(StackTop(f, 1))
  /\ StackTop(f, 1).kind = kind
  /\ Operands(f) = 0 /\ StackTop(f, 2) = v
  /\ f.byte_code_start_p[f.pc - 1].group = "FINALLY"

\* C8: when the error label handles a pending exception that is not an
\* abort, either a handler is found, the pending-exception slot is emptied
\* and the thrown value is the single operand above a CATCH record with
\* control at the catch body, or is parked in stack_top[-2] of a
\* FINALLY_THROW record with control at the finally body; or no handler is
\* found and vm_loop returns ERROR with the exception still pending.  No
\* other step empties the pending-exception slot.
C8_ExceptionReceivedByHandler ==
  [][/\ ThrowHandled =>
          LET f == frames'[Len(frames')]
              v == jcontext.error_value
          IN \/ /\ phase' = "loop" /\ ~f.error_code
                /\ ~jcontext_has_pending_exception(jcontext')
                /\ jcontext'.error_value = ECMA_VALUE_UNDEFINED
                /\ InCatchBody(f, v) # InFinallyBody(f, v, "FINALLY_THROW")
             \/ /\ phase' = "exec" /\ completion' = ECMA_VALUE_ERROR
                /\ f.context_depth = 0
                /\ jcontext_has_pending_exception(jcontext')
                /\ jcontext'.error_value = v
     /\ (jcontext_has_pending_exception(jcontext)
          /\ ~jcontext_has_pending_exception(jcontext'))
         => (ThrowHandled /\ phase' = "loop")]_vars

\* A: the exception thrown in the try block is the operand of the catch
\* body
C8_Witness ==
  /\ phase = "loop" /\ Top.unit = "A" /\ Operands(Top) = 1
  /\ IsPtr(StackTop(Top, 1)) /\ heap[StackTop(Top, 1).v].kind = "error"
  /\ InCatchBody(Top, StackTop(Top, 1))

\* B: the exception thrown in the try block is parked in a FINALLY_THROW
\* record
C8_ParkedReached ==
  /\ phase = "loop" /\ Top.context_depth > 1 /\ Operands(Top) = 0
  /\ IsPtr(StackTop(Top, 2)) /\ heap[StackTop(Top, 2).v].kind = "error"
  /\ InFinallyBody(Top, StackTop(Top, 2), "FINALLY_THROW")

\* the try statement of the TRY or CATCH record has a finally block
HasFinallyBlock(unit, tag) ==
  LET at == Code(unit)[tag.end]
  IN IF tag.kind = "TRY" /\ at.group = "CATCH"
     THEN Code(unit)[tag.end + at.off].group = "FINALLY"
     ELSE at.group = "FINALLY"

\* a jump to target leaves the protected range of a try statement of the
\* frame that has a finally block still to run
LeavesFinally(f, target) ==
  \E k \in 1..f.context_depth :
    /\ IsCtx(f.stack[k]) /\ f.stack[k].kind \in {"TRY", "CATCH"}
    /\ f.stack[k].end < target
    /\ HasFinallyBlock(f.unit, f.stack[k])

\* the jump out of the frame f to target has been routed: into the finally
\* block it leaves, with the target parked in the record, or else to the
\* target
JumpRouted(f, target, g) ==
  IF LeavesFinally(f, target)
  THEN InFinallyBody(g, Raw(target), "FINALLY_JUMP") /\ g.pc <= target
  ELSE g.pc = target /\ ~LeavesFinally(g, target)

\* C9: CONTEXT_END on a finally record pops the record and resumes the
\* continuation stored in it: FINALLY_RETURN hands the parked value to the
\* return path, FINALLY_THROW raises the parked value again, FINALLY_JUMP
\* goes to the parked target, but first into an enclosing finally block the
\* target leaves, which gets the same target parked; JUMP_AND_EXIT_CONTEXT
\* is routed the same way, so a break out of a try with a finally block
\* enters that block before its target
C9_ContextEndResumesContinuation ==
  [][/\ (phase = "loop" /\ CurIns(Top).group = "CONTEXT_END"
          /\ VM_CONTEXT_IS_FINALLY(StackTop(Top, 1).kind)) =>
          LET kind == StackTop(Top, 1).kind
              parked == StackTop(Top, 2)
              popped == DropContext(Top, PARSER_TRY_CONTEXT_STACK_ALLOCATION)
              g == frames'[Len(frames')]
          IN CASE kind = "FINALLY_RETURN" ->
                    /\ phase' = "error" /\ result' = parked
                    /\ g.stack = popped.stack
                    /\ g.context_depth = popped.context_depth
               [] kind = "FINALLY_THROW" ->
                    /\ phase' = "error" /\ ECMA_IS_VALUE_ERROR(result')
                    /\ jcontext_has_pending_exception(jcontext')
                    /\ jcontext'.error_value = parked
                    /\ g.stack = popped.stack
                    /\ g.context_depth = popped.context_depth
               [] kind = "FINALLY_JUMP" ->
                    phase' = "loop" /\ JumpRouted(popped, parked.v, g)
     /\ (phase = "loop" /\ CurIns(Top).group = "JUMP_AND_EXIT_CONTEXT") =>
          \/ phase' = "loop"
               /\ JumpRouted(Top, BranchTarget(Top, CurIns(Top)),
                             frames'[Len(frames')])
          \/ phase' = "error" /\ jcontext_has_pending_exception(jcontext')]_vars

\* B: the break out of the inner try has run the inner finally block, and
\* its CONTEXT_END has forwarded the target to the outer finally block
C9_Witness ==
  /\ phase = "loop" /\ Top.unit = "B"
  /\ Top.context_depth = PARSER_TRY_CONTEXT_STACK_ALLOCATION
  /\ InFinallyBody(Top, Raw(22), "FINALLY_JUMP")

\* the error label is about to handle a return value inside context records
ReturnHandled ==
  /\ phase = "error" /\ ~ECMA_IS_VALUE_ERROR(result)
  /\ Top.context_depth > 0

\* a try statement of the frame has a finally block still to run
HasEnclosingFinally(f) ==
  \E k \in 1..f.context_depth :
    /\ IsCtx(f.stack[k]) /\ f.stack[k].kind \in {"TRY", "CATCH"}
    /\ HasFinallyBlock(f.unit, f.stack[k])

\* the context is as it was, but for the record that an iterator was closed
ContextKept == jcontext' = [jcontext EXCEPT !.closes = jcontext'.closes]

\* C10 as stated: a return with value v1 inside a try that has a finally
\* block always parks v1 in the record, which becomes FINALLY_RETURN, and
\* enters the finally body
C10_ReturnAlwaysParked ==
  [][(ReturnHandled /\ HasEnclosingFinally(Top)) =>
       /\ phase' = "loop"
       /\ InFinallyBody(frames'[Len(frames')], result, "FINALLY_RETURN")]_vars

\* C10: a return with value v1 inside a try that has a finally block enters
\* the finally body with v1 parked in the record, which becomes
\* FINALLY_RETURN, unless closing a for-of iterator on the way raised an
\* exception: then the exception is parked instead and the record becomes
\* FINALLY_THROW.  A return with no finally block left to run, among them a
\* return v2 from inside a finally body and the return of the parked v1 by
\* CONTEXT_END, removes every record, parked values included, and vm_loop
\* returns that value (or ERROR with the exception a closed iterator raised).
C10_ReturnThroughFinally ==
  [][ReturnHandled =>
       LET g == frames'[Len(frames')]
       IN IF HasEnclosingFinally(Top)
          THEN /\ phase' = "loop" /\ ~g.error_code
               /\ ~jcontext_has_pending_exception(jcontext')
               /\ \/ /\ InFinallyBody(g, result, "FINALLY_RETURN")
                     /\ ContextKept
                  \/ /\ ~jcontext_has_pending_exception(jcontext)
                     /\ InFinallyBody(g, StackTop(g, 2), "FINALLY_THROW")
                     /\ IsPtr(StackTop(g, 2))
                     /\ heap'[StackTop(g, 2).v].kind = "error"
                     /\ heap[StackTop(g, 2).v].kind = "free"
          ELSE /\ phase' = "exec" /\ g.context_depth = 0
               /\ g.call_operation = VM_NO_EXEC_OP
               /\ \/ completion' = result /\ ContextKept
                  \/ /\ ECMA_IS_VALUE_ERROR(completion')
                     /\ ~jcontext_has_pending_exception(jcontext)
                     /\ jcontext_has_pending_exception(jcontext')]_vars

\* R: the return inside the for-of loop has closed the iterator, which
\* threw; the finally body runs with the exception parked
C10_Witness ==
  /\ phase = "loop" /\ Top.unit = "R" /\ IsPtr(Top.regs[2])
  /\ Top.context_depth = PARSER_TRY_CONTEXT_STACK_ALLOCATION
  /\ InFinallyBody(Top, StackTop(Top, 2), "FINALLY_THROW")

\* A: the value returned in the try block is parked while the finally body
\* runs
C10_ParkedReached ==
  /\ phase = "loop" /\ Top.unit = "A"
  /\ Top.context_depth = PARSER_TRY_CONTEXT_STACK_ALLOCATION
  /\ InFinallyBody(Top, Ptr(2), "FINALLY_RETURN")

\* the error label is about to handle an exception thrown inside a finally
\* body: the innermost record of the frame is a finally record
ThrownInFinally ==
  /\ ThrowHandled /\ Top.context_depth > 0
  /\ VM_CONTEXT_IS_FINALLY(Top.stack[Top.context_depth].kind)

\* C11: when an exception is thrown inside a finally body whose record
\* holds a continuation (a parked return value, a parked exception or a
\* jump target), the record is removed and its continuation never resumed,
\* the parked value loses the reference the record held, and the new
\* exception is the one a handler further out receives or vm_loop returns
\* ERROR for
C11_ThrowInFinallyReplacesContinuation ==
  [][ThrownInFinally =>
       LET k == Top.context_depth
           kind == Top.stack[k].kind
           parked == Top.stack[k - 1]
           v == jcontext.error_value
           g == frames'[Len(frames')]
       IN /\ g.context_depth <= k - PARSER_TRY_CONTEXT_STACK_ALLOCATION
          /\ (kind # "FINALLY_JUMP" /\ IsPtr(parked)) =>
               heap'[parked.v].refs = heap[parked.v].refs - 1
          /\ \/ /\ phase' = "loop"
                /\ InCatchBody(g, v) \/ InFinallyBody(g, v, "FINALLY_THROW")
             \/ /\ phase' = "exec" /\ ECMA_IS_VALUE_ERROR(completion')
                /\ jcontext_has_pending_exception(jcontext')
                /\ jcontext'.error_value = v]_vars

\* A: reading c in the finally body has thrown while the record holds the
\* value returned in the try block
C11_Witness ==
  /\ ThrownInFinally /\ Top.unit = "A"
  /\ Top.stack[Top.context_depth].kind = "FINALLY_RETURN"
  /\ Top.stack[Top.context_depth - 1] = Ptr(2)

\* the innermost record of the frame that can receive an exception
RECURSIVE InnermostHandler(_, _)
InnermostHandler(f, k) ==
  IF k = 0 THEN 0
  ELSE IF IsCtx(f.stack[k]) /\ f.stack[k].kind \in {"TRY", "CATCH"}
          /\ (f.stack[k].kind = "TRY" \/ HasFinallyBlock(f.unit, f.stack[k]))
       THEN k
       ELSE InnermostHandler(f, k - 1)

\* C12: an exception thrown inside nested try statements is received by
\* the innermost try record that still has a handler to run: a finally
\* block is entered from a record that has not entered it before, with the
\* exception parked as FINALLY_THROW, its CONTEXT_END removes the record
\* and raises the parked value again, and a catch body further out receives
\* the value only when no record is left above its own; in N the catch
\* body runs after the inner and then the middle finally block have run
C12_FinallyBodiesInnermostFirst ==
  [][/\ (ThrowHandled /\ InnermostHandler(Top, Top.context_depth) > 0) =>
          LET k == InnermostHandler(Top, Top.context_depth)
              g == frames'[Len(frames')]
              v == jcontext.error_value
          IN /\ phase' = "loop" /\ g.context_depth = k
             /\ IF Top.stack[k].kind = "TRY"
                   /\ Top.byte_code_start_p[Top.stack[k].end].group = "CATCH"
                THEN InCatchBody(g, v) /\ g.pc = Top.stack[k].end + 1
                ELSE InFinallyBody(g, v, "FINALLY_THROW")
                     /\ g.pc > Top.stack[k].end
     /\ (phase = "loop" /\ CurIns(Top).group = "CONTEXT_END"
          /\ StackTop(Top, 1).kind = "FINALLY_THROW") =>
          /\ phase' = "error" /\ ECMA_IS_VALUE_ERROR(result')
          /\ jcontext'.error_value = StackTop(Top, 2)
          /\ frames'[Len(frames')].context_depth
               = Top.context_depth - PARSER_TRY_CONTEXT_STACK_ALLOCATION
     /\ (phase' = "loop" /\ frames'[Len(frames')].unit = "N"
          /\ frames'[Len(frames')].pc = 15) =>
          /\ frames'[Len(frames')].regs = <<Ptr(2), Ptr(2)>>
          /\ InCatchBody(frames'[Len(frames')], frames'[Len(frames')].stack[3])]_vars

\* N: the exception thrown in the innermost try block has passed both
\* finally blocks and is the operand of the catch body
C12_Witness ==
  /\ phase = "loop" /\ Top.unit = "N" /\ Top.pc = 15
  /\ InCatchBody(Top, StackTop(Top, 1))
  /\ IsPtr(StackTop(Top, 1)) /\ heap[StackTop(Top, 1).v].kind = "error"
\* vm_execute is about to run vm_super_call
SuperCallPending == phase = "exec" /\ Top.call_operation = VM_EXEC_SUPER_CALL

\* the pending exception is an error object of the given class
PendingErrorOfClass(h, e, type) ==
  /\ jcontext_has_pending_exception(e)
  /\ IsPtr(e.error_value)
  /\ h[e.error_value.v].kind = "error"
  /\ h[e.error_value.v].code = type

\* C13: once super (...) has succeeded in a frame (its this binding is
\* initialized), every later super (...) of that frame ends with a pending
\* ReferenceError and the error byte code, runs no constructor, leaves the
\* this binding as it was, and takes its arguments and its callee off the
\* stack with one reference of each released.
C13_SuperCallOnlyOnce ==
  [][(SuperCallPending /\ ecma_op_this_binding_is_initialized(Top.this_prop)) =>
       LET f == Top
           g == frames'[Len(frames')]
           released == CallArgs(f) \o <<CallFunc(f)>>
       IN /\ Len(frames') = Len(frames)
          /\ phase' = "loop" /\ g.error_code
          /\ PendingErrorOfClass(heap', jcontext', ECMA_ERROR_REFERENCE)
          /\ jcontext'.constructs = jcontext.constructs
          /\ g.this_prop = f.this_prop /\ g.this_binding = f.this_binding
          /\ g.stack = SubSeq(f.stack, 1, Len(f.stack) - Len(released))
          /\ \A c \in Cells \ {jcontext'.error_value.v} :
                heap'[c].refs = heap[c].refs - Count(released, c)]_vars

\* a second super (...) has just been refused
C13_Witness ==
  /\ phase = "loop" /\ Top.unit = "S" /\ Top.pc = 6 /\ Top.error_code
  /\ ecma_op_this_binding_is_initialized(Top.this_prop)
  /\ jcontext.constructs = 1
  /\ PendingErrorOfClass(heap, jcontext, ECMA_ERROR_REFERENCE)

\* vm_loop is about to run TYPEOF_IDENT on a non-register identifier that
\* is one of names
TypeofIdentOf(names) ==
  /\ At("TYPEOF_IDENT")
  /\ CurIns(Top).x > Header.register_end
  /\ Literals[CurIns(Top).x].name \in names

\* C14: TYPEOF_IDENT on an identifier that no environment of the scope chain
\* binds pushes the string "undefined", leaves no pending exception (and no
\* error object) behind and goes on with the next opcode; on an identifier
\* that is bound it either pushes the typeof string of one of the binding's
\* values, or, when reading the binding raises, goes to the error label with
\* the exception still pending and nothing pushed.
C14_TypeofUnresolvedIdentifier ==
  [][LET f == Top
         g == frames'[Len(frames')]
         name == Literals[CurIns(f).x].name
     IN /\ TypeofIdentOf(UnboundNames) =>
             /\ phase' = "loop" /\ g.pc = f.pc + 1 /\ ~g.error_code
             /\ g.stack = Append(f.stack, MagicString("undefined"))
             /\ ~jcontext_has_pending_exception(jcontext')
             /\ heap' = heap
        /\ TypeofIdentOf({"c", "x", "g", "f", "k", "z"} \ UnboundNames) =>
             \/ /\ phase' = "error" /\ ECMA_IS_VALUE_ERROR(result')
                /\ jcontext_has_pending_exception(jcontext')
                /\ g.stack = f.stack
             \/ /\ phase' = "loop" /\ g.pc = f.pc + 1
                /\ ~jcontext_has_pending_exception(jcontext')
                /\ \E v \in IdentValues(name) :
                      g.stack = Append(f.stack, opfunc_typeof(heap, v))]_vars

\* typeof of the unbound identifier has just pushed "undefined"
C14_Witness ==
  /\ phase = "loop" /\ Top.unit = "Y" /\ Top.pc = 10 /\ ~Top.error_code
  /\ Top.stack # <<>> /\ StackTop(Top, 1) = MagicString("undefined")
  /\ ~jcontext_has_pending_exception(jcontext)

\* typeof of a bound identifier whose read throws is at the error label
C14_ErrorPropagated ==
  /\ phase = "error" /\ Top.unit = "Y" /\ Top.pc = 11
  /\ jcontext_has_pending_exception(jcontext)

\* the innermost context record of frame f is a for-in record
ForInOnTop(f) ==
  /\ f.context_depth >= PARSER_FOR_IN_CONTEXT_STACK_ALLOCATION
  /\ IsCtx(f.stack[f.context_depth])
  /\ f.stack[f.context_depth].kind = "FOR_IN"
\* its snapshot of names, its cursor and the iterated object
ForInSnapshot(f) == f.stack[f.context_depth - 1].v
ForInCursor(f) == f.stack[f.context_depth - 2].v
ForInObject(f) == f.stack[f.context_depth - 3]

RECURSIVE IsSubsequence(_, _)
IsSubsequence(a, b) ==
  IF a = <<>> THEN TRUE
  ELSE IF b = <<>> THEN FALSE
  ELSE IF Head(a) = Head(b) THEN IsSubsequence(Tail(a), Tail(b))
  ELSE IsSubsequence(a, Tail(b))

\* C15: FOR_IN_CREATE_CONTEXT takes the snapshot of the names the object has
\* at that moment; the snapshot never changes afterwards; the names
\* FOR_IN_GET_NEXT delivers are a subsequence of the snapshot up to the
\* cursor, in snapshot order and each at most once (so a name added later
\* is never delivered); FOR_IN_HAS_NEXT moves the cursor to the first
\* remaining snapshot name the object still has, releasing the names it
\* skips, and with no such name pops the FOR_IN record and releases the
\* iterated object once.
C15_ForInDeliversSnapshotSubsequence ==
  [][LET f == Top
         g == frames'[Len(frames')]
         same == Len(frames') = Len(frames) /\ phase' = "loop"
     IN /\ (phase' = "loop" /\ ForInOnTop(g)) =>
             /\ IsSubsequence(jcontext'.delivered,
                              SubSeq(ForInSnapshot(g), 1, ForInCursor(g)))
             /\ \A i, j \in 1..Len(ForInSnapshot(g)) :
                   ForInSnapshot(g)[i] = ForInSnapshot(g)[j] => i = j
        /\ (At("FOR_IN_CREATE_CONTEXT") /\ same) =>
             IF IsPtr(StackTop(f, 1)) /\ heap[StackTop(f, 1).v].names # {}
             THEN /\ ForInOnTop(g)
                  /\ g.context_depth = f.context_depth + PARSER_FOR_IN_CONTEXT_STACK_ALLOCATION
                  /\ ForInSnapshot(g) = EnumerateNames(heap[StackTop(f, 1).v].names, 1)
                  /\ ForInCursor(g) = 0
                  /\ ForInObject(g) = StackTop(f, 1)
                  /\ jcontext'.delivered = <<>>
             ELSE g.context_depth = f.context_depth /\ g.pc = BranchTarget(f, CurIns(f))
        /\ (At("FOR_IN_GET_NEXT") /\ same) =>
             /\ ForInOnTop(g) /\ ForInSnapshot(g) = ForInSnapshot(f)
             /\ ForInCursor(g) = ForInCursor(f) + 1
             /\ g.stack[Len(g.stack)] = ForInSnapshot(f)[ForInCursor(f) + 1]
             /\ jcontext'.delivered =
                  Append(jcontext.delivered, ForInSnapshot(f)[ForInCursor(f) + 1])
             /\ heap' = heap
        /\ (At("FOR_IN_HAS_NEXT") /\ same) =>
             LET snapshot == ForInSnapshot(f)
                 present == {i \in (ForInCursor(f) + 1)..Len(snapshot) :
                               NameIndex(snapshot[i]) \in heap[ForInObject(f).v].names}
             IN IF present # {}
                THEN /\ ForInOnTop(g) /\ g.context_depth = f.context_depth
                     /\ ForInSnapshot(g) = snapshot
                     /\ ForInCursor(g) + 1 \in present
                     /\ \A i \in present : ForInCursor(g) + 1 <= i
                     /\ g.pc = BranchTarget(f, CurIns(f))
                     /\ \A c \in Cells : heap'[c].refs = heap[c].refs
                           - Count(SubSeq(snapshot, ForInCursor(f) + 1, ForInCursor(g)), c)
                ELSE /\ g.context_depth =
                          f.context_depth - PARSER_FOR_IN_CONTEXT_STACK_ALLOCATION
                     /\ g.stack = SubSeq(f.stack, 1,
                          Len(f.stack) - PARSER_FOR_IN_CONTEXT_STACK_ALLOCATION)
                     /\ g.pc = f.pc + 1
                     /\ \A c \in Cells : heap'[c].refs = heap[c].refs
                           - Count(SubSeq(snapshot, ForInCursor(f) + 1, Len(snapshot)), c)
                           - (IF ForInObject(f) = Ptr(c) THEN 1 ELSE 0)
        /\ (same /\ ForInOnTop(f) /\ ForInOnTop(g)
              /\ g.context_depth = f.context_depth) =>
             ForInSnapshot(g) = ForInSnapshot(f)]_vars

\* a for-in loop has ended after delivering the only name of its snapshot,
\* although the object has been given another name in the meantime
C15_Witness ==
  /\ phase = "loop" /\ Top.unit = "I" /\ Top.pc = 8 /\ Top.context_depth = 0
  /\ jcontext.delivered = <<PropertyName(1)>>
  /\ heap[2].names = {1, 2}

\* a name of the snapshot has been skipped: the object had lost it
C15_Skipped ==
  /\ phase = "loop" /\ Top.unit = "I" /\ Top.pc = 8 /\ Top.context_depth = 0
  /\ jcontext.delivered = <<PropertyName(1)>>
  /\ heap[2].names = {}

\* vm_loop is about to run the arithmetic opcode of the given group on two
\* integer values
IntegerOperands(group) ==
  /\ At(group) /\ Len(Top.stack) >= 2
  /\ ecma_are_values_integer_numbers(StackTop(Top, 2), StackTop(Top, 1))

\* C16: on two integer values ADD, SUB, MUL and MOD push the value that the
\* operation on the operands as ecma_number_t denotes (an integer value
\* when that number is an integer in range other than -0.0, the float
\* otherwise); a sum or difference out of the integer range is pushed as
\* the float of its exact value; MUL takes its integer path only for two
\* non-zero operands of magnitude at most ECMA_INTEGER_MULTIPLY_MAX, and
\* MOD only for a non-zero divisor and not for a zero remainder of a
\* negative dividend.
C16_IntegerPathsAgreeWithFloat ==
  [][LET l == StackTop(Top, 2).v
         r == StackTop(Top, 1).v
         g == frames'[Len(frames')]
         pushed == g.stack[Len(g.stack)]
         x == NumberOfInteger(l)
         y == NumberOfInteger(r)
         Stepped(expected) ==
           /\ phase' = "loop" /\ g.pc = Top.pc + 1
           /\ Len(g.stack) = Len(Top.stack) - 1
           /\ pushed = ecma_make_number_value(expected)
           /\ pushed.t = "int" => ECMA_IS_INTEGER_NUMBER(pushed.v)
     IN /\ IntegerOperands("ADD") =>
             /\ Stepped(NumberAdd(x, y))
             /\ ~ECMA_IS_INTEGER_NUMBER(l + r) => pushed = NumberOfInteger(l + r)
        /\ IntegerOperands("SUB") =>
             /\ Stepped(NumberSubtract(x, y))
             /\ ~ECMA_IS_INTEGER_NUMBER(l - r) => pushed = NumberOfInteger(l - r)
        /\ IntegerOperands("MUL") =>
             /\ Stepped(NumberMultiply(x, y))
             /\ jcontext'.int_path =>
                  /\ l # 0 /\ r # 0
                  /\ Abs(l) <= ECMA_INTEGER_MULTIPLY_MAX
                  /\ Abs(r) <= ECMA_INTEGER_MULTIPLY_MAX
        /\ IntegerOperands("MOD") =>
             /\ Stepped(NumberRemainder(x, y))
             /\ jcontext'.int_path =>
                  /\ r # 0
                  /\ ~(l < 0 /\ Abs(l) % Abs(r) = 0)]_vars

\* the integer path of ADD has pushed a sum above ECMA_INTEGER_NUMBER_MAX
\* as a float
C16_Witness ==
  /\ phase = "loop" /\ Top.unit = "ADD" /\ Top.pc = 2
  /\ jcontext.int_path
  /\ Top.stack = << NumberOfInteger(2 * ECMA_INTEGER_NUMBER_MAX) >>

\* MUL of the integers 0 and -1 has pushed -0.0
C16_NegativeZeroProduct ==
  /\ phase = "loop" /\ Top.unit = "MUL" /\ Top.pc = 2
  /\ ~jcontext.int_path
  /\ Top.stack = << Float(TRUE, 0, 0) >>

\* vm_loop is about to read a property of the base on the stack
PropertyReadOf(bases) ==
  /\ At("PROP_GET")
  /\ StackTop(Top, 2) \in bases
\* vm_loop is about to write a property of the base on the stack
PropertyWriteOf(bases) ==
  /\ At("ASSIGN") /\ "REFERENCE" \in CurIns(Top).put
  /\ StackTop(Top, 3) \in bases

\* C17: a property read or a property write whose base is undefined or
\* null ends in the error path with a pending TypeError, whatever the
\* property operand is, and without any conversion of the property, any
\* object lookup or any put having been called.
C17_NullishBaseRaisesTypeErrorFirst ==
  [][(PropertyReadOf({ECMA_VALUE_UNDEFINED, ECMA_VALUE_NULL})
        \/ PropertyWriteOf({ECMA_VALUE_UNDEFINED, ECMA_VALUE_NULL})) =>
       /\ phase' = "error"
       /\ ECMA_IS_VALUE_ERROR(result')
       /\ PendingErrorOfClass(heap', jcontext', ECMA_ERROR_TYPE)
       /\ jcontext'.prop_path = <<>>]_vars

\* the read of a property whose name is an object (its conversion would run
\* code of the program) from null has just been refused
C17_Witness ==
  /\ phase = "error" /\ Top.unit = "P" /\ Top.pc = 3
  /\ left_value = ECMA_VALUE_NULL /\ right_value = Ptr(2)
  /\ PendingErrorOfClass(heap, jcontext, ECMA_ERROR_TYPE)
  /\ jcontext.prop_path = <<>>

\* C18: whichever way vm_op_set_value leaves (TypeError for a null or
\* undefined base, failed conversion of the property, failed or successful
\* put, binding write), every cell has afterwards exactly one reference
\* less for the base and one less for the property, and none less for the
\* value.
C18_SetValueReleasesBaseAndProperty ==
  (At("ASSIGN") /\ "REFERENCE" \in CurIns(Top).put
     /\ StackTop(Top, 3) # ECMA_VALUE_REGISTER_REF) =>
    LET base == StackTop(Top, 3)
        property == StackTop(Top, 2)
        value == StackTop(Top, 1)
    IN \A o \in vm_op_set_value(heap, jcontext, base, property, value) :
         \A c \in Cells :
           heap[c].refs > Count(<<base, property>>, c) =>
             o.heap[c].refs = heap[c].refs - Count(<<base, property>>, c)

\* a put that followed the conversion of the property has just failed
C18_Witness ==
  /\ phase = "error" /\ Top.unit = "P" /\ Top.pc = 8
  /\ jcontext.prop_path = <<"to_string", "put">>
  /\ jcontext_has_pending_exception(jcontext)

\* the other ways out of vm_op_set_value have been taken
C18_TypeErrorExit ==
  /\ phase = "error" /\ Top.unit = "P" /\ Top.pc = 8
  /\ jcontext.prop_path = <<>>
  /\ PendingErrorOfClass(heap, jcontext, ECMA_ERROR_TYPE)
C18_ConversionFailedExit ==
  /\ phase = "error" /\ Top.unit = "P" /\ Top.pc = 8
  /\ jcontext.prop_path = <<"to_string">>
C18_PutSucceededExit ==
  /\ phase = "loop" /\ Top.unit = "P" /\ Top.pc = 8
  /\ jcontext.prop_path = <<"put">>
C18_BindingWriteExit ==
  /\ phase = "loop" /\ Top.unit = "P" /\ Top.pc = 11
  /\ jcontext.prop_path = <<"set_mutable_binding">>

\* vm_execute is about to run the deferred operation op
Pending(op) == phase = "exec" /\ Top.call_operation = op
\* the value is no object that can be called, or none that can construct
NotCallable(v) == ~IsPtr(v) \/ heap[v.v].kind \notin {"function", "native"}
NotConstructor(v) == ~IsPtr(v) \/ heap[v.v].kind \notin {"function", "native"}
\* a spread operation is pending for an opcode that calls (constructs)
SpreadPending(kind) == Pending(VM_EXEC_SPREAD_OP) /\ CurIns(Top).args = kind

\* the deferred operation is refused: control is back in the same frame at
\* the error byte code with a TypeError pending, no function was called and
\* none constructed, no code of the program has changed the object, and
\* the values released have one reference less each
RefusedReleasing(released, slots) ==
  LET f == Top
      g == frames'[Len(frames')]
  IN /\ Len(frames') = Len(frames)
     /\ phase' = "loop" /\ g.error_code
     /\ PendingErrorOfClass(heap', jcontext', ECMA_ERROR_TYPE)
     /\ jcontext'.calls = jcontext.calls
     /\ jcontext'.constructs = jcontext.constructs
     /\ heap'[2].names = heap[2].names
     /\ g.stack = SubSeq(f.stack, 1, Len(f.stack) - slots)
     /\ \A c \in Cells \ {jcontext'.error_value.v} :
           heap'[c].refs = heap[c].refs - Count(released, c)

\* C19: a call or a spread call whose callee is not a callable object, and
\* a new or a spread new whose callee is not a constructor object, end with
\* a pending TypeError without ecma_op_function_call or
\* ecma_op_function_construct having run, and with the arguments (for the
\* spread forms the collection, and the callee) released.
C19_CalleeRefusedWithTypeError ==
  [][/\ (Pending(VM_EXEC_CALL) /\ NotCallable(CallFunc(Top))) =>
          RefusedReleasing(CallArgs(Top), CurIns(Top).x)
     /\ (Pending(VM_EXEC_CONSTRUCT) /\ NotConstructor(CallFunc(Top))) =>
          RefusedReleasing(CallArgs(Top), CurIns(Top).x)
     /\ (SpreadPending("CALL") /\ NotCallable(SpreadFunc(Top))) =>
          RefusedReleasing(SpreadCollection(Top).v \o <<SpreadFunc(Top)>>, 2)
     /\ (SpreadPending("NEW") /\ NotConstructor(SpreadFunc(Top))) =>
          RefusedReleasing(SpreadCollection(Top).v \o <<SpreadFunc(Top)>>, 2)]_vars

\* new w (...[g]) has just been refused
C19_Witness ==
  /\ phase = "loop" /\ Top.unit = "W" /\ Top.pc = 11 /\ Top.error_code
  /\ PendingErrorOfClass(heap, jcontext, ECMA_ERROR_TYPE)

\* the other three forms have been refused
C19_ConstructRefused ==
  /\ phase = "loop" /\ Top.unit = "W" /\ Top.pc = 3 /\ Top.error_code
  /\ PendingErrorOfClass(heap, jcontext, ECMA_ERROR_TYPE)
C19_CallRefused ==
  /\ phase = "loop" /\ Top.unit = "W" /\ Top.pc = 6 /\ Top.error_code
  /\ PendingErrorOfClass(heap, jcontext, ECMA_ERROR_TYPE)
C19_SpreadCallRefused ==
  /\ phase = "loop" /\ Top.unit = "W" /\ Top.pc = 8 /\ Top.error_code
  /\ PendingErrorOfClass(heap, jcontext, ECMA_ERROR_TYPE)
\* the iteration of a spread argument has thrown
C19_SpreadArgumentsFailed ==
  /\ phase = "error" /\ Top.unit = "W" /\ Top.pc = 16
  /\ jcontext_has_pending_exception(jcontext)

\* a deferred call, construct, super call or spread operation gives control
\* back to vm_loop of the frame that asked for it
DeferredEnds ==
  /\ phase \in {"exec", "ret"} /\ phase' = "loop"
  /\ Len(frames') = Len(frames)
\* the frame is inside a try statement
InsideTry(f) ==
  \E i \in 1..Len(f.stack) : IsCtx(f.stack[i]) /\ f.stack[i].kind = "TRY"

\* C20: a deferred operation that ends with an exception pending leaves the
\* frame's cursor at the error byte code (and one that ends without leaves
\* it in the program); at the error byte code the next step of vm_loop is
\* the error path with result ECMA_VALUE_ERROR, the frame, the heap and the
\* pending exception untouched; and from there, unless the exception is an
\* abort, a frame inside a try statement goes on in the catch or finally
\* block, which has received the exception, and not behind the call.
C20_DeferredErrorTakesErrorPath ==
  [][/\ DeferredEnds =>
          (frames'[Len(frames')].error_code
             <=> jcontext_has_pending_exception(jcontext'))
     /\ (phase = "loop" /\ Top.error_code) =>
          /\ phase' = "error" /\ ECMA_IS_VALUE_ERROR(result')
          /\ frames' = frames /\ heap' = heap /\ jcontext' = jcontext
     /\ (phase = "error" /\ Top.error_code /\ InsideTry(Top)
           /\ ~jcontext_has_pending_abort(jcontext)) =>
          LET g == frames'[Len(frames')]
              v == jcontext.error_value
          IN /\ Len(frames') = Len(frames)
             /\ phase' = "loop" /\ ~g.error_code
             /\ g.pc # Top.pc + 1
             /\ ~jcontext_has_pending_exception(jcontext')
             /\ InCatchBody(g, v) # InFinallyBody(g, v, "FINALLY_THROW")]_vars

\* W: the TypeError of a refused call, new or spread operation is the
\* operand of the catch body
C20_Witness ==
  /\ phase = "loop" /\ Top.unit = "W" /\ ~Top.error_code /\ Operands(Top) = 1
  /\ IsPtr(StackTop(Top, 1)) /\ heap[StackTop(Top, 1).v].kind = "error"
  /\ heap[StackTop(Top, 1).v].code = ECMA_ERROR_TYPE
  /\ InCatchBody(Top, StackTop(Top, 1))

\* I: a call outside every try statement has thrown and the frame is at the
\* error byte code
C20_ErrorOutsideTry ==
  /\ phase = "loop" /\ Top.unit = "I" /\ Top.error_code /\ ~InsideTry(Top)

\* the operations vm_loop defers to vm_execute, each with the group of the
\* opcodes that defer it
DeferredOperations ==
  {<<VM_EXEC_CALL, "CALL">>, <<VM_EXEC_CONSTRUCT, "NEW">>,
   <<VM_EXEC_SUPER_CALL, "SUPER_CALL">>, <<VM_EXEC_SPREAD_OP, "SPREAD_ARGUMENTS">>}
\* the pending operation has been carried out on the top frame: its operands
\* have left the stack (the callee as well unless the operation threw, when
\* it stays for the error path to release)
OperationCarriedOut(f, g) ==
  LET operands == IF CurIns(f).group = "SPREAD_ARGUMENTS" THEN 1 ELSE CurIns(f).x
      below == Len(f.stack) - operands - 1
  IN /\ SubSeq(g.stack, 1, below) = SubSeq(f.stack, 1, below)
     /\ IF g.error_code
        THEN Len(g.stack) \in {below, below + 1} /\ g.pc = f.pc
        ELSE /\ g.pc = f.pc + 1
             /\ Len(g.stack) =
                  (IF "STACK" \in CurIns(f).put THEN below + 1 ELSE below)
\* C21: when vm_loop has returned to vm_execute, the frame leaves the chain
\* (vm_execute returns to its caller) exactly when call_operation is
\* VM_EXEC_RETURN or VM_NO_EXEC_OP.  For a deferred operation the saved
\* cursor is at the opcode that deferred it; the operation is entered in
\* this step and vm_loop runs next, either for the same frame with the
\* operation carried out once, or for the frame of the callee, and then the
\* operation is carried out once when the callee has returned.
C21_ExecuteReturnsOrPerformsDeferred ==
  [][/\ phase = "exec" =>
          /\ (Top.call_operation \in {VM_EXEC_RETURN, VM_NO_EXEC_OP})
               <=> (frames' = SubSeq(frames, 1, Len(frames) - 1))
          /\ (Top.call_operation \in {VM_EXEC_RETURN, VM_NO_EXEC_OP})
               => (phase' \in {"ret", "done"} /\ completion' = completion)
          /\ \A d \in DeferredOperations :
               Top.call_operation = d[1] =>
                 /\ ~Top.error_code /\ Top.byte_code_start_p[Top.pc].group = d[2]
                 /\ phase' = "loop"
                 /\ \/ /\ Len(frames') = Len(frames)
                       /\ SubSeq(frames', 1, Len(frames) - 1)
                            = SubSeq(frames, 1, Len(frames) - 1)
                       /\ frames'[Len(frames')].unit = Top.unit
                       /\ OperationCarriedOut(Top, frames'[Len(frames')])
                    \/ /\ d[1] = VM_EXEC_CALL
                       /\ Len(frames') = Len(frames) + 1
                       /\ SubSeq(frames', 1, Len(frames)) = frames
     /\ phase = "ret" =>
          /\ phase' = "loop" /\ Len(frames') = Len(frames)
          /\ Top.call_operation = VM_EXEC_CALL
          /\ OperationCarriedOut(Top, frames'[Len(frames')])]_vars

\* Q: the call of G has come back with the generator (vm_execute left the
\* callee's frame with VM_EXEC_RETURN) and vm_loop runs the caller again
\* behind the call
C21_Witness ==
  /\ phase = "loop" /\ Len(frames) = 1 /\ Top.unit = "Q" /\ Top.pc = 3
  /\ Top.call_operation = VM_EXEC_CALL
  /\ IsPtr(StackTop(Top, 1)) /\ heap[StackTop(Top, 1).v].kind = "generator"
  /\ heap[StackTop(Top, 1).v].frame # <<>>

\* W: a spread operation has been carried out and vm_loop runs the frame
\* again
C21_SpreadReentered ==
  /\ phase = "loop" /\ Top.unit = "W" /\ Top.pc = 9
  /\ Top.call_operation = VM_EXEC_SPREAD_OP

\* the frame of a generator is the top frame and its cursor is behind a
\* yield
AfterYield(f) ==
  /\ f.executable_object # 0 /\ ~f.error_code /\ f.pc > 1
  /\ f.byte_code_start_p[f.pc - 1].group = "YIELD"

\* C23: YIELD hands the top operand to vm_execute as the completion value
\* with call_operation VM_EXEC_RETURN, the cursor saved behind the opcode and
\* the stack top below the value; the registers, the stack below the value,
\* the context records and context_depth stay as they are and no reference
\* is released.  vm_execute then leaves the frame as it is in its executable
\* object and passes the value on, and when the frame is restored vm_loop
\* finds it in that state, with the value sent on top of its operands, at
\* the opcode behind the yield.
C23_YieldSuspendsFrameIntact ==
  [][/\ At("YIELD") =>
          LET g == frames'[Len(frames')]
          IN /\ phase' = "exec" /\ Len(frames') = Len(frames)
             /\ completion' = StackTop(Top, 1)
             /\ g.call_operation = VM_EXEC_RETURN
             /\ g.pc = Top.pc + 1
             /\ g.stack = SubSeq(Top.stack, 1, Len(Top.stack) - 1)
             /\ g.regs = Top.regs /\ g.context_depth = Top.context_depth
             /\ g.lex_env = Top.lex_env /\ g.block_result = Top.block_result
             /\ heap' = heap /\ jcontext' = jcontext
     /\ (phase = "exec" /\ AfterYield(Top)
           /\ Top.call_operation = VM_EXEC_RETURN) =>
          /\ heap'[Top.executable_object].frame = <<Top>>
          /\ \A c \in Cells : heap'[c].refs = heap[c].refs
          /\ completion' = completion
     /\ (phase = "exec" /\ Len(frames') = Len(frames) + 1
           /\ frames'[Len(frames')].executable_object # 0) =>
          LET g == frames'[Len(frames')]
              saved == heap[g.executable_object].frame[1]
          IN /\ phase' = "loop"
             /\ g = PushN(saved, <<StackTop(g, 1)>>)
             /\ \A c \in Cells : heap'[c].refs = heap[c].refs]_vars

\* G: the generator has been resumed behind its first yield, inside the try
\* statement, with the operand it had below the value it yielded
C23_Witness ==
  /\ phase = "loop" /\ Len(frames) = 2 /\ Top.unit = "G" /\ Top.pc = 6
  /\ AfterYield(Top) /\ InsideTry(Top) /\ Operands(Top) = 2
  /\ Top.context_depth = PARSER_TRY_CONTEXT_STACK_ALLOCATION
  /\ Top.stack[Len(Top.stack) - 1] = Ptr(2)

\* G: the generator is suspended at its second yield
C23_SuspendedTwice ==
  \E c \in Cells :
    /\ heap[c].kind = "generator" /\ heap[c].frame # <<>>
    /\ heap[c].frame[1].pc = 10

\* a step of vm_run for the byte-code function a call has on the stack
FunctionRun ==
  /\ phase = "exec"
  /\ Top.call_operation = VM_EXEC_CALL
  /\ IsPtr(CallFunc(Top))
  /\ heap[CallFunc(Top).v].kind = "function"
  /\ Len(frames') = Len(frames) + 1

\* the cell count of the references the values vs hold on cell c, added to n
ReferencesAdded(n, vs, c) == n + Count(vs, c)

\* C22: after vm_init_exec with argc arguments, for a code unit with
\* argument_end <= register_end: register i holds a copy of argument i for
\* i < min(argc, argument_end); every other register is UNDEFINED, except
\* that with REST_PARAMETER register argument_end holds a new array of
\* exactly the arguments beyond argument_end (none when argc <=
\* argument_end); the stack top is at the end of the registers, the context
\* depth is 0, the direct-eval status is cleared and the frame is the top
\* context with the previous top context as its parent.
C22_InitExecSeedsRegisters ==
  [][FunctionRun =>
       LET hd == CodeHeader(heap[CallFunc(Top).v].code)
           args == CallArgs(Top)
           argc == Len(args)
           seeded == IF argc < hd.argument_end THEN argc ELSE hd.argument_end
           rest == CBC_CODE_FLAGS_REST_PARAMETER \in hd.status_flags
           surplus == [i \in 1..(argc - seeded) |-> args[seeded + i]]
           g == frames'[Len(frames')]
       IN /\ hd.argument_end <= hd.register_end
          /\ DOMAIN g.regs = 1..hd.register_end
          /\ \A i \in 1..hd.register_end :
               IF i <= seeded THEN g.regs[i] = args[i]
               ELSE IF rest /\ i = hd.argument_end + 1
               THEN /\ IsPtr(g.regs[i])
                    /\ heap[g.regs[i].v].kind = "free"
                    /\ heap'[g.regs[i].v].kind = "array"
                    /\ heap'[g.regs[i].v].refs = 1
                    /\ heap'[g.regs[i].v].items = surplus
               ELSE g.regs[i] = ECMA_VALUE_UNDEFINED
          /\ \A c \in Cells :
               heap[c].kind # "free" =>
                 heap'[c].refs
                   = ReferencesAdded(heap[c].refs,
                                     SubSeq(args, 1, seeded)
                                     \o (IF rest THEN surplus ELSE <<>>), c)
          /\ g.stack = <<>>
          /\ g.context_depth = 0
          /\ ~jcontext'.direct_eval
          /\ frames' = Append(frames, g)]_vars

\* a function with one parameter and a rest parameter has been called with
\* three arguments while the direct-eval status was set
C22_Witness ==
  /\ Len(frames) = 2
  /\ phase = "loop"
  /\ frames[2].unit = "R12"
  /\ frames[1].unit = "CALL3"
  /\ frames[2].regs[1] = Ptr(2)
  /\ IsPtr(frames[2].regs[2])
  /\ heap[frames[2].regs[2].v].items = <<IntValue(1), Ptr(2)>>
  /\ heap[2].refs = 5

\* more arguments than parameters and no rest parameter
C22_Truncated ==
  /\ Len(frames) = 2
  /\ frames[2].unit = "H12"
  /\ frames[1].unit = "CALL3"
  /\ frames[2].regs = <<IntValue(1), ECMA_VALUE_UNDEFINED>>

\* a rest parameter with no argument left for it
C22_RestEmpty ==
  /\ Len(frames) = 2
  /\ frames[2].unit = "R23"
  /\ frames[1].unit = "CALL1"
  /\ IsPtr(frames[2].regs[3])
  /\ heap[frames[2].regs[3].v].items = <<>>
  /\ frames[2].regs[2] = ECMA_VALUE_UNDEFINED

\* a step of vm_run_eval for the call of eval a frame has on the stack
EvalRun ==
  /\ phase = "exec"
  /\ Top.call_operation = VM_EXEC_CALL
  /\ IsPtr(CallFunc(Top))
  /\ heap[CallFunc(Top).v].kind = "eval"
  /\ Len(frames') = Len(frames) + 1

\* C24: vm_run_eval takes this and the base environment from the current
\* top frame for a direct eval, and the global object and the global scope
\* for an indirect one; the base environment is wrapped in a new
\* declarative environment exactly when the code is strict, and that in a
\* new declarative environment flagged BLOCK exactly when the code needs a
\* lexical block; when either flag is set the environment handed to vm_run
\* is never the base environment itself.
C24_EvalBindsThisAndEnvironment ==
  [][EvalRun =>
       LET g == frames'[Len(frames')]
           flags == CodeHeader(g.unit).status_flags
           strict == CBC_CODE_FLAGS_STRICT_MODE \in flags
           block == CBC_CODE_FLAGS_LEXICAL_BLOCK_NEEDED \in flags
           n == Len(g.lex_env)
           handed == g.lex_env[n]
       IN /\ g.unit \in EvalUnits
          /\ frames' = Append(frames, g)
          /\ IF g.is_eval_code
             THEN g.this_binding = Top.this_binding /\ g.lex_env[1].kind = "top_context"
             ELSE /\ g.this_binding = ecma_builtin_get_global
                  /\ g.lex_env[1].kind = "global_scope"
          /\ n = 1 + (IF strict THEN 1 ELSE 0) + (IF block THEN 1 ELSE 0)
          /\ strict => g.lex_env[2].kind = "decl" /\ ~g.lex_env[2].block
          /\ block => handed.kind = "decl" /\ handed.block
          /\ (strict \/ block) <=> handed.kind \notin {"top_context", "global_scope"}]_vars

\* a direct eval of strict code that needs a lexical block, from a frame
\* whose this is undefined and that has pushed an environment of its own
C24_Witness ==
  /\ Len(frames) = 2
  /\ phase = "loop"
  /\ frames[2].unit = "VSL"
  /\ frames[2].is_eval_code
  /\ frames[2].this_binding = ECMA_VALUE_UNDEFINED
  /\ frames[1].lex_env = <<DeclEnv>>
  /\ Len(frames[2].lex_env) = 3

\* an indirect eval of code with neither flag runs in the global scope
C24_IndirectPlain ==
  /\ Len(frames) = 2
  /\ frames[2].unit = "V"
  /\ ~frames[2].is_eval_code
  /\ frames[1].this_binding = ECMA_VALUE_UNDEFINED
  /\ frames[2].this_binding = ecma_builtin_get_global
  /\ frames[2].lex_env = <<ecma_get_global_scope>>

\* the error label has been reached with the value of a return opcode
ReturnAtErrorLabel == phase = "error" /\ ~ECMA_IS_VALUE_ERROR(result)

\* C27: when control reaches the error label with a result other than ERROR
\* that a return opcode (RETURN, RETURN_WITH_BLOCK, RETURN_WITH_LITERAL,
\* EXT_RETURN) produced, no operand is left on the stack above the
\* registers and the context records, and every value that was there has
\* been released: each cell has exactly the references of its holders.
C27_ReturnLeavesNoOperand ==
  ReturnAtErrorLabel =>
    /\ Operands(Top) = 0
    /\ \A c \in Cells : heap[c].refs = Holders(c)

\* EXT_RETURN inside the try block of X, with two operands released below
\* the returned string, one of them the last-but-one reference of an object
C27_Witness ==
  /\ ReturnAtErrorLabel
  /\ Top.unit = "X"
  /\ Top.pc = 7
  /\ Top.context_depth > 0
  /\ result = Ptr(1)
  /\ heap[2].refs = 1

\* the same return with no context record on the stack
C27_ReturnOutsideTry ==
  /\ ReturnAtErrorLabel
  /\ Top.unit = "X"
  /\ Top.pc = 4
  /\ Top.context_depth = 0
  /\ result = Ptr(1)

\* ToNumber of the values an increment or decrement meets here
NumberValueOf(v) ==
  IF v.t \in {"int", "float"} THEN v
  ELSE IF v = ECMA_VALUE_TRUE THEN IntValue(1)
  ELSE IF v = ECMA_VALUE_NULL THEN IntValue(0)
  ELSE ECMA_NUMBER_NAN

\* the value of the number of v plus step (1 or -1): an integer value when
\* the sum is an integer in range, a float otherwise
NumberValuePlus(v, step) ==
  IF v.t = "int"
  THEN IF ECMA_INTEGER_NUMBER_MIN <= v.v + step /\ v.v + step <= ECMA_INTEGER_NUMBER_MAX
       THEN IntValue(v.v + step) ELSE NumberOfInteger(v.v + step)
  ELSE ecma_make_number_value(NumberAdd(v, NumberOfInteger(step)))

\* C28: for the pre- and post-increment and -decrement opcodes in their
\* identifier and property forms, the value stored back is ToNumber(old) + 1
\* or ToNumber(old) - 1; a post form that routes its value to the stack or
\* to block_result delivers ToNumber(old) unmodified (a pre form the new
\* value); and an integer operand equal to ECMA_INTEGER_NUMBER_MAX on
\* increment or ECMA_INTEGER_NUMBER_MIN on decrement does not take the
\* shifted-integer path: the result is a float number, never a wrapped
\* integer.
C28_IncrDecrStoresNumberPlusOne ==
  [][(phase = "loop" /\ Top.unit = "INCR"
      /\ jcontext'.put_value # ECMA_VALUE_EMPTY) =>
       LET ins == CurIns(Top)
           g == frames'[1]
           ident == ins.args = "LITERAL"
           decr == ins.group \in {"PRE_DECR", "POST_DECR", "PROP_PRE_DECR",
                                  "PROP_POST_DECR"}
           post == ins.group \in {"POST_INCR", "POST_DECR", "PROP_POST_INCR",
                                  "PROP_POST_DECR"}
           old == IF ident THEN Top.regs[1] ELSE jcontext'.get_value
           num == NumberValueOf(old)
           new == NumberValuePlus(num, IF decr THEN -1 ELSE 1)
           stored == jcontext'.put_value
           bound == IF decr THEN ECMA_INTEGER_NUMBER_MIN ELSE ECMA_INTEGER_NUMBER_MAX
       IN /\ stored = new
          /\ ident => g.regs[1] = new
          /\ phase' = "loop" =>
               /\ "STACK" \in ins.put =>
                    g.stack = << IF post THEN num ELSE new >>
               /\ "BLOCK" \in ins.put =>
                    g.block_result = (IF post THEN num ELSE new)
               /\ ins.put \cap {"STACK", "BLOCK"} = {} => g.stack = <<>>
          /\ old.t = "int" =>
               /\ jcontext'.int_path <=> old.v # bound
               /\ old.v = bound =>
                    stored = Float(decr, 0, ECMA_INTEGER_NUMBER_MAX + 1 +
                                            (IF decr THEN 1 ELSE 0))]_vars

\* a post-increment of a property that holds ECMA_INTEGER_NUMBER_MAX has
\* left the old value on the stack and stored the float above it
C28_Witness ==
  /\ phase = "loop"
  /\ Top.unit = "INCR"
  /\ Top.pc = 14
  /\ Top.stack = << IntValue(ECMA_INTEGER_NUMBER_MAX) >>
  /\ jcontext.get_value = IntValue(ECMA_INTEGER_NUMBER_MAX)
  /\ jcontext.put_value = NumberOfInteger(ECMA_INTEGER_NUMBER_MAX + 1)
  /\ ~jcontext.int_path

\* a pre-decrement of a register that holds ECMA_INTEGER_NUMBER_MIN
C28_DecrementAtMin ==
  /\ phase = "loop"
  /\ Top.unit = "INCR"
  /\ Top.pc % 2 = 0
  /\ CurIns([Top EXCEPT !.pc = @ - 1]).group = "PRE_DECR"
  /\ jcontext.get_value = IntValue(ECMA_INTEGER_NUMBER_MIN)
  /\ Top.regs[1] = NumberOfInteger(ECMA_INTEGER_NUMBER_MIN - 1)

\* a post-decrement of a register on the integer path, routed to
\* block_result
C28_IntegerPathToBlock ==
  /\ phase = "loop"
  /\ Top.unit = "INCR"
  /\ Top.pc % 2 = 0
  /\ CurIns([Top EXCEPT !.pc = @ - 1]).group = "POST_DECR"
  /\ jcontext.int_path
  /\ Top.block_result = IntValue(0)
  /\ Top.regs[1] = IntValue(-1)

\* an operand that is not a number: a string becomes NaN
C28_Converted ==
  /\ phase = "loop"
  /\ Top.unit = "INCR"
  /\ jcontext.get_value = Ptr(1)
  /\ jcontext.put_value = ECMA_NUMBER_NAN

\* a op b on the low n bits of the two's complement of a and b, as a number
\* from 0 up to 2^n - 1
RECURSIVE PayloadBitwise(_, _, _, _)
PayloadBitwise(op, a, b, n) ==
  IF n = 0 THEN 0
  ELSE (CASE op = "BIT_OR" -> (IF a % 2 = 1 \/ b % 2 = 1 THEN 1 ELSE 0)
          [] op = "BIT_AND" -> (IF a % 2 = 1 /\ b % 2 = 1 THEN 1 ELSE 0)
          [] op = "BIT_XOR" -> (IF a % 2 # b % 2 THEN 1 ELSE 0))
       + 2 * PayloadBitwise(op, a \div 2, b \div 2, n - 1)
\* a | b, a & b and a ^ b on integers of 28 bits
PayloadLogic(op, a, b) ==
  LET u == PayloadBitwise(op, a, b, 28)
  IN IF u >= 2^27 THEN u - 2^28 ELSE u
\* (int32_t) (a << c) for c in 0..31
Int32LeftShift(a, c) ==
  IF c = 0 THEN a
  ELSE IF c = 31 THEN (IF a % 2 = 1 THEN -(2^30) - 2^30 ELSE 0)
  ELSE LET low == (a % 2^(31 - c)) * 2^c
       IN IF (a \div 2^(31 - c)) % 2 = 1 THEN (low - 2^30) - 2^30 ELSE low
\* a >> c on int32_t for c in 0..31
Int32RightShift(a, c) == IF c = 31 THEN (IF a < 0 THEN -1 ELSE 0) ELSE a \div 2^c
\* the number value of an integer that fits 32 bits
Int32Number(n) ==
  IF ECMA_INTEGER_NUMBER_MIN <= n /\ n <= ECMA_INTEGER_NUMBER_MAX THEN IntValue(n)
  ELSE IF n >= 0 THEN Float(FALSE, n \div 2^28, n % 2^28)
  ELSE IF n = -(2^30) - 2^30 THEN Float(TRUE, 8, 0)
  ELSE Float(TRUE, (-n) \div 2^28, (-n) % 2^28)
\* the number value of (uint32_t) a >> c for c in 0..31
Uint32RightShift(a, c) ==
  IF a >= 0 THEN Int32Number(Int32RightShift(a, c))
  ELSE IF c = 0 THEN Float(FALSE, 15, 2^28 + a)
  ELSE Int32Number((2^(31 - c) + Int32RightShift(a, c)) + 2^(31 - c))

\* a frame of a bitwise function whose operands are integer values
BitIntegerOperands ==
  /\ phase = "loop"
  /\ Top.unit \in BitUnits
  /\ Top.pc = 1
  /\ \A i \in 1..Len(Top.stack) : Top.stack[i].t = "int"

\* C29: on integer values a and b the integer paths of BIT_OR, BIT_AND,
\* BIT_XOR and BIT_NOT, computed on the tagged words, give an integer value
\* whose payload is a|b, a&b, a^b and ~a and lies within
\* ECMA_INTEGER_NUMBER_MIN .. ECMA_INTEGER_NUMBER_MAX; LEFT_SHIFT,
\* RIGHT_SHIFT and UNS_RIGHT_SHIFT shift by b mod 32 and give the 32-bit
\* signed (for UNS_RIGHT_SHIFT unsigned) result, as a float number when it
\* is outside the range of the integer values.
C29_BitwiseIntegerPaths ==
  [][BitIntegerOperands =>
       LET a == Top.stack[1].v
           b == Top.stack[Len(Top.stack)].v
           c == b % 32
           g == frames'[1]
           res == g.stack[1]
       IN /\ phase' = "loop"
          /\ g.pc = 2
          /\ Len(g.stack) = 1
          /\ jcontext'.int_path
          /\ heap' = heap
          /\ Top.unit \in {"BIT_OR", "BIT_AND", "BIT_XOR"} =>
               /\ res = IntValue(PayloadLogic(Top.unit, a, b))
               /\ ECMA_INTEGER_NUMBER_MIN <= res.v /\ res.v <= ECMA_INTEGER_NUMBER_MAX
          /\ Top.unit = "BIT_NOT" =>
               /\ res = IntValue(-a - 1)
               /\ ECMA_INTEGER_NUMBER_MIN <= res.v /\ res.v <= ECMA_INTEGER_NUMBER_MAX
          /\ Top.unit = "LEFT_SHIFT" => res = Int32Number(Int32LeftShift(a, c))
          /\ Top.unit = "RIGHT_SHIFT" => res = Int32Number(Int32RightShift(a, c))
          /\ Top.unit = "UNS_RIGHT_SHIFT" => res = Uint32RightShift(a, c)]_vars

\* ECMA_INTEGER_NUMBER_MAX << 33 has shifted by one and left the range of
\* the integer values
C29_Witness ==
  /\ phase = "loop"
  /\ Top.unit = "LEFT_SHIFT"
  /\ Top.pc = 2
  /\ jcontext.int_path
  /\ Top.stack = << Float(FALSE, 0, 2^28 - 2) >>

\* ~ECMA_INTEGER_NUMBER_MAX is ECMA_INTEGER_NUMBER_MIN
C29_NotOfMax ==
  /\ phase = "loop"
  /\ Top.unit = "BIT_NOT"
  /\ Top.pc = 2
  /\ jcontext.int_path
  /\ Top.stack = << IntValue(ECMA_INTEGER_NUMBER_MIN) >>

\* -1 >>> 0 is 2^32 - 1
C29_UnsignedOfNegative ==
  /\ phase = "loop"
  /\ Top.unit = "UNS_RIGHT_SHIFT"
  /\ Top.pc = 2
  /\ jcontext.int_path
  /\ Top.stack = << Float(FALSE, 15, 2^28 - 1) >>

\* ECMA_INTEGER_NUMBER_MIN ^ ECMA_INTEGER_NUMBER_MAX is -1
C29_XorOfBounds ==
  /\ phase = "loop"
  /\ Top.unit = "BIT_XOR"
  /\ Top.pc = 2
  /\ jcontext.int_path
  /\ Top.stack = << IntValue(-1) >>

\* 1 << 31 is -2^31
C29_ShiftIntoSign ==
  /\ phase = "loop"
  /\ Top.unit = "LEFT_SHIFT"
  /\ Top.pc = 2
  /\ jcontext.int_path
  /\ Top.stack = << Float(TRUE, 8, 0) >>

\* a frame at LESS with two integer values on its stack, in an engine built
\* without JERRY_VM_EXEC_STOP
LessFused ==
  /\ phase = "loop"
  /\ Top.unit \in LessUnits
  /\ CurIns(Top).group = "LESS"
  /\ Top.stack[1].t = "int" /\ Top.stack[2].t = "int"
  /\ ~jcontext.JERRY_VM_EXEC_STOP

\* C30: LESS on two integer values with a backward BRANCH_IF_TRUE after it
\* (offset of 1, 2 or 3 bytes) reaches in one step the state the two
\* opcodes reach one after the other: the position is the target of the
\* branch when left < right and the byte after the branch opcode and the
\* bytes of its offset otherwise, and the boolean is not on the stack.
C30_LessFusedWithBranch ==
  [][LessFused =>
       LET is_less == Top.stack[1].v < Top.stack[2].v
           pushed == PushN(Advance(PopN(Top, 2)), <<ecma_make_boolean_value(is_less)>>)
           branched == BranchIf(pushed, CurIns(pushed))
       IN /\ frames' = << branched >>
          /\ phase' = "loop"
          /\ heap' = heap
          /\ jcontext' = [jcontext EXCEPT !.int_path = TRUE]
          /\ frames'[1].stack = <<>>
          /\ frames'[1].pc =
               IF is_less THEN 1
               ELSE BranchDistance(Top.unit) + 1 + BranchOffsetLength(Top.unit) + 1]_vars

\* the branch with an offset of three bytes taken by LESS itself
C30_Witness ==
  /\ phase = "loop"
  /\ Top.unit = "LESS3"
  /\ Top.pc = 1
  /\ Top.stack = <<>>
  /\ ~jcontext.JERRY_VM_EXEC_STOP
  /\ jcontext.int_path

\* the branch with an offset of two bytes not taken by LESS itself
C30_NotTaken ==
  /\ phase = "loop"
  /\ Top.unit = "LESS2"
  /\ Top.pc = 304
  /\ Top.stack = <<>>
  /\ ~jcontext.JERRY_VM_EXEC_STOP
  /\ jcontext.int_path

\* the same branch taken by the branch opcode after LESS has pushed true
C30_TwoSteps ==
  /\ phase = "loop"
  /\ Top.unit = "LESS3"
  /\ Top.pc = 1
  /\ Top.stack = <<>>
  /\ jcontext.JERRY_VM_EXEC_STOP
  /\ jcontext.int_path

\* the interpreter is about to read, or to write, a property of the proxy
ProxyRead ==
  /\ phase = "loop"
  /\ Top.unit = "PGET"
  /\ CurIns(Top).group = "PROP_GET"
  /\ ECMA_OBJECT_IS_PROXY(heap, Top.stack[1])
ProxyWrite ==
  /\ phase = "loop"
  /\ Top.unit = "PSET"
  /\ CurIns(Top).group = "ASSIGN"
  /\ ECMA_OBJECT_IS_PROXY(heap, Top.stack[1])
\* the step is a read, or a write, of the proxy through the API
ProxyApiRead ==
  /\ phase = "done" /\ phase' = "done"
  /\ jcontext'.accesses = jcontext.accesses + 1
  /\ jcontext'.access.op = "get"
  /\ ECMA_OBJECT_IS_PROXY(heap, jcontext'.access.object)
ProxyApiWrite ==
  /\ phase = "done" /\ phase' = "done"
  /\ jcontext'.accesses = jcontext.accesses + 1
  /\ jcontext'.access.op = "set"
  /\ ECMA_OBJECT_IS_PROXY(heap, jcontext'.access.object)

C25_ScriptReadAfterWrite ==
  /\ phase = "loop"
  /\ Top.unit = "PGET"
  /\ Top.stack = << IntValue(56) >>
  /\ jcontext.traps # <<>>
  /\ jcontext.traps[Len(jcontext.traps)].handler = "handler_get"

\* the lookup cache answers a read of the plain object
C25_CacheAnswers ==
  /\ phase = "loop"
  /\ Top.unit = "PGET"
  /\ jcontext.access.object = ProxyTargetObject
  /\ jcontext.prop_path = << "lcache" >>
  /\ jcontext.traps # <<>>

\* the fast-array path answers a read of the array
C25_FastArrayAnswers ==
  /\ phase = "loop"
  /\ Top.unit = "PGET"
  /\ jcontext.prop_path = << "fast_array" >>
  /\ Top.stack = << IntValue(7) >>

\* every ECMA_VALUE_REGISTER_REF on the stack of the frame f has the index
\* of a register above it and a value above that
RegisterRefsPaired(f) ==
  \A i \in 1..Len(f.stack) :
    f.stack[i] = ECMA_VALUE_REGISTER_REF =>
      /\ i + 2 <= Len(f.stack)
      /\ ecma_is_value_integer_number(f.stack[i + 1])
      /\ f.stack[i + 1].v \in 1..CodeHeader(f.unit).register_end
      /\ f.stack[i + 2] # ECMA_VALUE_REGISTER_REF
      /\ f.stack[i + 2].t \in {"direct", "int", "float", "ptr"}

\* every ECMA_VALUE_REGISTER_REF on the stack of the frame f has the index
\* of a register above it, and a value above that unless the index is the
\* top of the stack
RegisterRefsIndexed(f) ==
  \A i \in 1..Len(f.stack) :
    f.stack[i] = ECMA_VALUE_REGISTER_REF =>
      /\ i + 1 <= Len(f.stack)
      /\ ecma_is_value_integer_number(f.stack[i + 1])
      /\ f.stack[i + 1].v \in 1..CodeHeader(f.unit).register_end
      /\ i + 2 <= Len(f.stack) =>
           /\ f.stack[i + 2] # ECMA_VALUE_REGISTER_REF
           /\ f.stack[i + 2].t \in {"direct", "int", "float", "ptr"}

\* the put of an assignment is about to find a register reference
RegisterPut ==
  /\ At("ASSIGN")
  /\ "REFERENCE" \in CurIns(Top).put
  /\ Len(Top.stack) >= 3
  /\ StackTop(Top, 3) = ECMA_VALUE_REGISTER_REF

\* the references on cell c after the register's content old is released,
\* the result res is copied if it is delivered as well, and the block
\* result is released if res takes its place
RegisterPutRefs(c, old, res, put) ==
  heap[c].refs - Count(<<old>>, c)
  + (IF put \cap {"STACK", "BLOCK"} # {} THEN Count(<<res>>, c) ELSE 0)
  - (IF "BLOCK" \in put /\ "STACK" \notin put
     THEN Count(<<Top.block_result>>, c) ELSE 0)

\* C31 as it is stated: in every state, an ECMA_VALUE_REGISTER_REF on the
\* operand stack is the first slot of a triple (REGISTER_REF, register
\* index, value).
C31_RegisterRefAlwaysInTriple == RegisterRefsPaired(Top)

\* C31: whenever an opcode is about to be decoded, ECMA_VALUE_REGISTER_REF
\* is on the operand stack only as the first slot of a triple
\* (REGISTER_REF, register index, value), as IDENT_REFERENCE pushes it; at
\* the error label, after an opcode that had taken the value off the stack
\* has failed, the value can be missing above the index.  It is in no
\* register and no block result.  When the put of an assignment finds
\* base = REGISTER_REF it takes exactly the two reference slots (and the
\* value the opcode fetched) off the stack, releases the previous content
\* of register[index], stores the result there, leaves every other
\* register as it is and calls nothing: JERRY_CONTEXT is left as it is, no
\* exception is raised, and control goes on with the next opcode.
C31_RegisterReference ==
  [][/\ phase' = "loop" => RegisterRefsPaired(frames'[Len(frames')])
     /\ RegisterRefsIndexed(frames'[Len(frames')])
     /\ \A i \in 1..Len(frames'[Len(frames')].regs) :
          frames'[Len(frames')].regs[i] # ECMA_VALUE_REGISTER_REF
     /\ frames'[Len(frames')].block_result # ECMA_VALUE_REGISTER_REF
     /\ RegisterPut =>
          LET index == StackTop(Top, 2).v
              res == StackTop(Top, 1)
              put == CurIns(Top).put
              next == frames'[Len(frames')]
          IN /\ phase' = "loop"
             /\ jcontext' = jcontext
             /\ next.pc = Top.pc + 1
             /\ next.stack = SubSeq(Top.stack, 1, Len(Top.stack) - 3)
                             \o (IF "STACK" \in put THEN <<res>> ELSE <<>>)
             /\ next.regs = [Top.regs EXCEPT ![index] = res]
             /\ next.block_result =
                  (IF "BLOCK" \in put /\ "STACK" \notin put THEN res
                   ELSE Top.block_result)
             /\ \A c \in Cells :
                  IF RegisterPutRefs(c, Top.regs[index], res, put) > 0
                  THEN heap'[c] = [heap[c] EXCEPT
                                     !.refs = RegisterPutRefs(c, Top.regs[index], res, put)]
                  ELSE heap'[c] = FreeCell]_vars

\* r2 += r1 as an operand, with 1 in both registers: the sum is in r2 and on
\* the stack, r1 is as it was
C31_Witness ==
  /\ phase = "loop"
  /\ Top.unit = "REF"
  /\ Top.pc = 25
  /\ Top.regs = << IntValue(1), IntValue(2) >>
  /\ Top.stack = << IntValue(2) >>

\* r2 += r1 has failed in its addition, which had taken the value of r2 and
\* r1 off the stack: the reference to r2 is what is left there
C31_ValueTakenAtError ==
  /\ phase = "error"
  /\ Top.unit = "REF"
  /\ Top.stack = << ECMA_VALUE_REGISTER_REF, IntValue(2) >>
  /\ left_value = Ptr(2)
  /\ right_value = IntValue(1)
  /\ ECMA_IS_VALUE_ERROR(result)

\* the triple is on the stack
C31_TripleOnStack ==
  /\ phase = "loop"
  /\ Top.unit = "REF"
  /\ Top.stack = << ECMA_VALUE_REGISTER_REF, IntValue(2), Ptr(2) >>

\* the string r1 held went with the last reference to it when r1 += r1 put
\* a new value in r1
C31_ContentReleased ==
  /\ phase = "loop"
  /\ Top.unit = "REF"
  /\ Top.pc = 5
  /\ Top.regs[1] # Ptr(2)
  /\ Top.regs[2] = IntValue(1)
  /\ heap[2].refs = 1
  /\ Top.stack = <<>>

\* the global g is written by vm_op_set_value
C31_BindingWritten ==
  /\ phase = "loop"
  /\ Top.unit = "REF"
  /\ Top.pc = 15
  /\ jcontext.prop_path = << "set_mutable_binding" >>

\* opfunc_call is about to run its tail: the callee has completed in the
\* step, or has returned into it
CallCompleting ==
  /\ phase \in {"exec", "ret"}
  /\ phase' = "loop"
  /\ Len(frames') = Len(frames)
  /\ Top.call_operation = VM_EXEC_CALL

\* the slots under the arguments that belong to the call: the callee, and
\* the base and the property name of a property call
CallSlots(ins) == IF is_call_prop(ins) THEN 3 ELSE 1

\* the stack without its n topmost slots
StackBelow(f, n) == SubSeq(f.stack, 1, Len(f.stack) - n)

\* C32: a successful call with n arguments takes exactly the n arguments
\* and the callee off the operand stack, and the base and the property name
\* too in the property-call form, and delivers the result as the decode
\* table says: one value pushed for PUT_STACK, block_result replaced for
\* PUT_BLOCK, nothing kept otherwise; the byte-code cursor goes past the
\* call.  A failed call takes off only the slots it has released (the
\* arguments, and the callee and the property name of a property call) and
\* leaves the cursor at the error sequence; the drain at the error label
\* then empties the stack.  In every state the reference count of each cell
\* is the number of places that hold it: each slot has been released once.
C32_CallStackEffect ==
  [][/\ \A c \in Cells : heap'[c].refs = Holders(c)'
     /\ CallCompleting =>
          LET f == Top
              g == frames'[Len(frames')]
              ins == CurIns(Top)
          IN /\ g.regs = f.regs
             /\ g.context_depth = f.context_depth
             /\ IF g.error_code
                THEN /\ g.pc = f.pc
                     /\ g.stack = StackBelow(f, ins.x + CallSlots(ins) - 1)
                     /\ g.block_result = f.block_result
                     /\ jcontext_has_pending_exception(jcontext')
                ELSE /\ g.pc = f.pc + 1
                     /\ ~jcontext_has_pending_exception(jcontext')
                     /\ IF "STACK" \in ins.put
                        THEN /\ Len(g.stack) = Len(f.stack) - ins.x - CallSlots(ins) + 1
                             /\ StackBelow(g, 1) = StackBelow(f, ins.x + CallSlots(ins))
                             /\ ~ECMA_IS_VALUE_ERROR(StackTop(g, 1))
                             /\ g.block_result = f.block_result
                        ELSE /\ g.stack = StackBelow(f, ins.x + CallSlots(ins))
                             /\ "BLOCK" \notin ins.put => g.block_result = f.block_result
     /\ (phase = "error" /\ Top.unit = "FORMS" /\ ECMA_IS_VALUE_ERROR(result)) =>
          /\ frames'[Len(frames')].stack = <<>>
          /\ phase' = "exec"
          /\ ECMA_IS_VALUE_ERROR(completion')
    ]_vars

\* o.f (a, b) has returned the object and its result is the block result:
\* the five slots of the call are gone, the slot below is left
C32_Witness ==
  /\ phase = "loop"
  /\ Top.unit = "FORMS"
  /\ Top.pc = 36
  /\ Top.stack = <<Ptr(2)>>
  /\ Top.block_result = Ptr(2)
  /\ heap[2].refs = 3
  /\ heap[1].refs = 1
  /\ jcontext.calls = 1

\* a property call of something that is not a function has failed: the
\* base is left on the stack for the drain
C32_FailedPropertyCall ==
  /\ phase = "loop"
  /\ Top.unit = "FORMS"
  /\ Top.error_code
  /\ Top.stack = <<Ptr(2), Ptr(2)>>
  /\ jcontext_has_pending_exception(jcontext)

\* and the drain has released it
C32_FailedCallDrained ==
  /\ phase = "exec"
  /\ Top.unit = "FORMS"
  /\ Top.pc = 19
  /\ Top.stack = <<>>
  /\ ECMA_IS_VALUE_ERROR(completion)
  /\ heap[2].refs = 1

\* a byte-code function has returned into a plain call whose result is
\* pushed
C32_ReturnedIntoCall ==
  /\ phase = "loop"
  /\ Top.unit = "FORMS"
  /\ Top.pc = 16
  /\ Top.stack = <<ECMA_VALUE_UNDEFINED>>
  /\ heap[NewCell(InitHeap)].kind = "free"

\* the FOR_OF records with VM_CONTEXT_CLOSE_ITERATOR among the slots of a
\* stack
RECURSIVE ForOfRecords(_)
ForOfRecords(stack) ==
  IF stack = <<>> THEN 0
  ELSE (IF IsCtx(Head(stack)) /\ Head(stack).kind = "FOR_OF" /\ Head(stack).close
        THEN 1 ELSE 0) + ForOfRecords(Tail(stack))

\* the frame on top of the chain after the step, which is the frame that
\* was there before it
SameTop == Len(frames') = Len(frames) /\ Len(frames) > 0

\* FOR_OF_CREATE_CONTEXT has pushed no record
ForOfNotEntered ==
  /\ At("FOR_OF_CREATE_CONTEXT")
  /\ frames'[Len(frames')].context_depth = Top.context_depth

\* C33 as it is stated: whenever FOR_OF_CREATE_CONTEXT pushes no record,
\* because the first step reports done or because obtaining or stepping the
\* iterator fails, it jumps to the end of the loop.
C33_NoRecordJumpsToLoopEnd ==
  [][ForOfNotEntered =>
       /\ phase' = "loop"
       /\ frames'[Len(frames')].pc = BranchTarget(Top, CurIns(Top))]_vars

\* C33: FOR_OF_CREATE_CONTEXT takes the iterable off the stack.  When the
\* first iterator step reports done it pushes no record and jumps to the
\* end of the loop; when obtaining or stepping the iterator fails it pushes
\* no record and goes to the error label with the exception pending;
\* otherwise it pushes one FOR_OF record with CLOSE_ITERATOR set over the
\* iterator and the step result, and goes on with the loop body.
\* FOR_OF_HAS_NEXT on exhaustion releases the iterator and the step result
\* and pops the record without closing the iterator.  The iterator is
\* closed exactly in the steps that unwind a FOR_OF record with
\* CLOSE_ITERATOR otherwise: a jump out of the loop, a return or an
\* exception.
C33_ForOfRecord ==
  [][/\ At("FOR_OF_CREATE_CONTEXT") =>
          LET f == Top
              g == frames'[Len(frames')]
          IN /\ SameTop
             /\ jcontext'.closes = jcontext.closes
             /\ \A c \in Cells : heap'[c].refs = Holders(c)'
             /\ IF phase' = "error"
                THEN /\ g = PopN(f, 1)
                     /\ ECMA_IS_VALUE_ERROR(result')
                     /\ jcontext_has_pending_exception(jcontext')
                ELSE IF g.context_depth = f.context_depth
                THEN /\ g = Jump(PopN(f, 1), CurIns(f))
                     /\ ~jcontext_has_pending_exception(jcontext')
                ELSE /\ g.context_depth
                          = f.context_depth + PARSER_FOR_OF_CONTEXT_STACK_ALLOCATION
                     /\ g.pc = f.pc + 1
                     /\ SubSeq(g.stack, 1, Len(g.stack) - 3) = PopN(f, 1).stack
                     /\ StackTop(g, 1)
                          = [VM_CREATE_CONTEXT("FOR_OF", BranchTarget(f, CurIns(f)))
                               EXCEPT !.close = TRUE]
                     /\ IsPtr(StackTop(g, 2)) /\ heap'[StackTop(g, 2).v].kind = "iter_result"
                     /\ IsPtr(StackTop(g, 3)) /\ heap'[StackTop(g, 3).v].kind = "iterator"
                     /\ ~jcontext_has_pending_exception(jcontext')
     /\ (At("FOR_OF_HAS_NEXT") /\ phase' = "loop"
           /\ frames'[Len(frames')].context_depth < Top.context_depth) =>
          /\ frames'[Len(frames')] = DropContext(Advance(Top), 3)
          /\ heap'[StackTop(Top, 2).v].kind = "free"
          /\ heap'[StackTop(Top, 3).v].kind = "free"
          /\ \A c \in Cells : heap'[c].refs = Holders(c)'
     /\ jcontext'.closes # jcontext.closes <=>
          /\ SameTop
          /\ ~At("FOR_OF_HAS_NEXT")
          /\ ForOfRecords(frames'[Len(frames')].stack) < ForOfRecords(Top.stack)
    ]_vars

\* the loop of O has been entered: the record is over the iterator and the
\* first step result
C33_Witness ==
  /\ phase = "loop"
  /\ Top.unit = "O"
  /\ Top.pc = 4
  /\ ForOfRecords(Top.stack) = 1
  /\ jcontext.closes = 0

\* obtaining the iterator has failed in O: control is at the error label,
\* not at the end of the loop
C33_IteratorFailed ==
  /\ phase = "error"
  /\ Top.unit = "O"
  /\ Top.pc = 3
  /\ ForOfRecords(Top.stack) = 0
  /\ jcontext_has_pending_exception(jcontext)

\* the first step has reported done: the loop is skipped
C33_LoopSkipped ==
  /\ phase = "loop"
  /\ Top.unit = "O"
  /\ Top.pc = 12
  /\ Top.context_depth = PARSER_TRY_CONTEXT_STACK_ALLOCATION
  /\ jcontext.closes = 0
  /\ jcontext.bwd_since = 0

\* the iterator of O is exhausted after a turn of the loop: the record is
\* gone and the iterator was not closed
C33_Exhausted ==
  /\ phase = "loop"
  /\ Top.unit = "O"
  /\ Top.pc = 12
  /\ Top.context_depth = PARSER_TRY_CONTEXT_STACK_ALLOCATION
  /\ jcontext.closes = 0
  /\ jcontext.bwd_since > 0

\* the break of O has left the loop: the iterator was closed
C33_ClosedByBreak ==
  /\ phase = "loop"
  /\ Top.unit = "O"
  /\ Top.pc = 12
  /\ jcontext.closes = 1

\* the return of R has left the loop: the iterator was closed
C33_ClosedByReturn ==
  /\ Len(frames) > 0
  /\ Top.unit = "R"
  /\ Top.pc = 12
  /\ jcontext.closes = 1

\* the context records of a stack that have VM_CONTEXT_HAS_LEX_ENV set
RECURSIVE EnvRecords(_)
EnvRecords(stack) ==
  IF stack = <<>> THEN 0
  ELSE (IF IsCtx(Head(stack)) /\ Head(stack).lex THEN 1 ELSE 0) + EnvRecords(Tail(stack))

\* one of the two chains of environments is the other with environments
\* added at its end
EnvChainExtends(a, b) ==
  IF Len(a) <= Len(b) THEN SubSeq(b, 1, Len(a)) = a ELSE SubSeq(a, 1, Len(b)) = b

\* the extended form of BLOCK_CREATE_CONTEXT is about to flag the try
\* record it is in
TryCreateEnv == At("BLOCK_CREATE_CONTEXT") /\ CurIns(Top).x # "BLOCK"

\* C34: every lexical environment pushed by BLOCK_CREATE_CONTEXT or WITH
\* belongs to one context record with VM_CONTEXT_HAS_LEX_ENV, and is popped
\* in the step in which that record is left or becomes a finally record, by
\* whatever route (CONTEXT_END, FINALLY, a jump out, a return, an
\* exception): in every step of a frame the chain of environments grows or
\* shrinks at its end by as many environments as there are more or fewer
\* flagged records, so that once the record is gone the current
\* environment is the one at entry.  The flag is set only on a record that
\* does not have it, and a frame that returns has no flagged record left.
C34_LexEnvPairedWithRecord ==
  [][/\ SameTop =>
          LET f == Top
              g == frames'[Len(frames')]
          IN /\ Len(g.lex_env) - Len(f.lex_env)
                  = EnvRecords(g.stack) - EnvRecords(f.stack)
             /\ EnvChainExtends(f.lex_env, g.lex_env)
     /\ TryCreateEnv =>
          /\ ~Top.stack[Top.context_depth].lex
          /\ frames'[Len(frames')].stack[Top.context_depth].lex
          /\ Top.stack[Top.context_depth].kind
               \in {"TRY", "CATCH", "FINALLY_JUMP", "FINALLY_THROW", "FINALLY_RETURN"}
     /\ (phase = "exec" /\ Top.call_operation = VM_NO_EXEC_OP) =>
          EnvRecords(Top.stack) = 0
    ]_vars

\* L is in its finally block: the environments of the block, the with and
\* the catch block are gone
C34_Witness ==
  /\ phase = "loop"
  /\ Top.unit = "L"
  /\ Top.pc = 22
  /\ Top.lex_env = <<ecma_create_decl_lex_env>>
  /\ EnvRecords(Top.stack) = 0
  /\ StackTop(Top, 1).kind = "FINALLY_JUMP"
  /\ jcontext.vm_exec_stop_cb

\* inside the block of L: two environments over the one at entry
C34_InBlock ==
  /\ phase = "loop"
  /\ Top.unit = "L"
  /\ Top.pc = 8
  /\ Top.lex_env = <<ecma_create_decl_lex_env, ObjectEnv(Ptr(2)), DeclEnv>>
  /\ EnvRecords(Top.stack) = 2

\* the catch block of L has its environment: the try record is flagged
C34_CatchFlagged ==
  /\ phase = "loop"
  /\ Top.unit = "L"
  /\ Top.pc = 16
  /\ StackTop(Top, 2) = [VM_CREATE_CONTEXT("CATCH", 21) EXCEPT !.lex = TRUE]
  /\ Top.lex_env = <<DeclEnv>>

\* the return in the block has gone through the finally block
C34_ReturnedFromBlock ==
  /\ phase = "exec"
  /\ Top.unit = "L"
  /\ completion = Ptr(2)
  /\ Top.lex_env = <<>>
  /\ Top.stack = <<>>

\* the throw in the catch block has left it through the finally block
C34_ThrownFromCatch ==
  /\ phase = "exec"
  /\ Top.unit = "L"
  /\ ECMA_IS_VALUE_ERROR(completion)
  /\ jcontext.error_value = Ptr(2)
  /\ Top.lex_env = <<ecma_create_decl_lex_env>>

\* C35: whenever control is at the error label with result = ERROR, an
\* exception is pending; when it is there with another result, which a
\* return opcode or the end of a finally block with a parked return value
\* has put there, no exception is pending.
C35_ErrorLabelPendingException ==
  phase = "error" =>
    (ECMA_IS_VALUE_ERROR(result) <=> jcontext_has_pending_exception(jcontext))

\* the call that follows CBC_EVAL has completed: the frame of EVALCALL is
\* back in vm_loop behind the call, or at the opcode a failed call leaves
EvalCallCompleted ==
  /\ Len(frames) = 1
  /\ Top.unit = "EVALCALL"
  /\ phase = "loop"
  /\ CurIns(Top).group \in {"POP_BLOCK", "ERROR"}

\* C36: once the call that follows the EVAL opcode has completed, whatever
\* its form (plain, property, spread) and its outcome, the direct-eval
\* status flag is clear
C36_DirectEvalCleared == EvalCallCompleted => ~jcontext.direct_eval

\* the plain call and the property call after CBC_EVAL have completed
C36_PlainCallCompleted ==
  EvalCallCompleted /\ Top.pc <= 6 /\ ~jcontext.direct_eval
\* the spread call of a byte-code function after CBC_EVAL has completed
C36_SpreadCallRan ==
  EvalCallCompleted /\ Top.pc > 6 /\ ~jcontext.direct_eval

\* C37: when the call of eval has completed, whatever the way vm_run_eval
\* was left, the copy of the this binding, the reference to the
\* environment and the reference to the byte code it took have been
\* released: no call of vm_run_eval holds anything
C37_RunEvalReleasesAll == EvalCallCompleted => jcontext.run_eval = <<>>

\* a direct eval has run its code with the copy of an object as this
\* binding and has returned
C37_EvalReturned ==
  /\ EvalCallCompleted
  /\ jcontext.run_eval = <<>>
  /\ CurIns(Top).group = "POP_BLOCK"
  /\ Top.this_binding = Ptr(2)
  /\ Top.stack # <<>>
  /\ jcontext.calls = 1
  /\ heap[NewCell(InitHeap)].kind = "free"
\* vm_run_eval has been left with the RangeError
C37_RangeErrorLeft ==
  /\ EvalCallCompleted
  /\ jcontext.run_eval # <<>>
  /\ ~jcontext.run_eval[1].lex_env_p

\* C38: a super (...) that fails leaves the this binding and the frame's
\* this_binding as they were, so the this binding of a frame whose super
\* calls have all failed is still uninitialized; a super (...) in a frame
\* whose this binding is uninitialized is never refused with the
\* ReferenceError of a second call: on a callee that is no constructor it
\* raises the TypeError, otherwise the constructor runs.  The test of the
\* this binding comes first: with the this binding initialized, super (...)
\* on a callee that is no constructor raises the ReferenceError.
C38_FailedSuperCall ==
  [][SuperCallPending =>
       LET f == Top
           g == frames'[Len(frames')]
       IN /\ Len(frames') = Len(frames)
          /\ g.error_code =>
               (g.this_prop = f.this_prop /\ g.this_binding = f.this_binding)
          /\ ~ecma_op_this_binding_is_initialized(f.this_prop) =>
               /\ ~PendingErrorOfClass(heap', jcontext', ECMA_ERROR_REFERENCE)
               /\ IF ecma_is_constructor(heap, CallFunc(f))
                  THEN jcontext'.constructs # jcontext.constructs
                  ELSE /\ g.error_code
                       /\ PendingErrorOfClass(heap', jcontext', ECMA_ERROR_TYPE)
          /\ (ecma_op_this_binding_is_initialized(f.this_prop)
              /\ ~ecma_is_constructor(heap, CallFunc(f))) =>
               /\ g.error_code
               /\ PendingErrorOfClass(heap', jcontext', ECMA_ERROR_REFERENCE)]_vars

\* SS: the second super (...) has succeeded, which it only does after the
\* first one has failed
C38_Witness ==
  /\ phase = "loop" /\ Top.unit = "SS" /\ Top.pc = 10 /\ ~Top.error_code
  /\ Top.this_prop = Ptr(2) /\ Top.this_binding = Ptr(2)
  /\ StackTop(Top, 1) = Ptr(2)
\* SS: both super calls have failed and the this binding is uninitialized
C38_BothFailed ==
  /\ phase = "loop" /\ Top.unit = "SS" /\ Top.pc = 12
  /\ Top.this_prop = ECMA_VALUE_UNINITIALIZED
  /\ Top.this_binding = ECMA_VALUE_UNINITIALIZED
\* SS: the second super (...) is about to run on a callee that is no
\* constructor, with the this binding initialized
C38_SecondOnNonConstructor ==
  /\ SuperCallPending /\ Top.unit = "SS" /\ Top.pc = 9
  /\ ecma_op_this_binding_is_initialized(Top.this_prop)
  /\ ~ecma_is_constructor(heap, CallFunc(Top))
\* SS: the second super (...) has been refused as a second call
C38_SecondRefused ==
  /\ phase = "loop" /\ Top.unit = "SS" /\ Top.pc = 9 /\ Top.error_code
  /\ PendingErrorOfClass(heap, jcontext, ECMA_ERROR_REFERENCE)

\* the slot of the innermost record of a try statement in the frame f (0
\* when it is in none)
RECURSIVE TopTry(_, _)
TopTry(f, j) ==
  IF j = 0 THEN 0
  ELSE IF IsCtx(f.stack[j])
          /\ f.stack[j].kind \in {"TRY", "CATCH", "FINALLY_JUMP", "FINALLY_THROW",
                                  "FINALLY_RETURN"}
       THEN j
       ELSE TopTry(f, j - 1)

\* the error label is about to look for the handler of a pending exception
ThrowPending ==
  /\ phase = "error" /\ ECMA_IS_VALUE_ERROR(result)
  /\ jcontext_has_pending_exception(jcontext)
  /\ ~jcontext_has_pending_abort(jcontext)

\* the step hands the exception to the record in slot j of the frame, whose
\* kind is then kind
DeliveredTo(j, kind) ==
  /\ phase' = "loop" /\ SameTop
  /\ frames'[Len(frames')].context_depth = j
  /\ frames'[Len(frames')].stack[j].kind = kind

\* C39: the catch body of a try statement is entered at most once for each
\* entry into the statement.  A record that has left the kind TRY never
\* gets it back, and an exception enters a catch body only through a record
\* of kind TRY.  An exception thrown while the innermost try record is of
\* kind CATCH or of a finally kind is not handed to the catch of that
\* record: from a catch body it goes to the finally block of the statement
\* when there is one (the record becomes FINALLY_THROW and holds the
\* exception), and otherwise, as from a finally body, to a record further
\* out or out of the function.
C39_CatchEnteredOnce ==
  [][LET f == Top
         g == frames'[Len(frames')]
         j == TopTry(f, f.context_depth)
     IN /\ SameTop =>
             \A i \in 1..f.context_depth :
               (/\ IsCtx(f.stack[i]) /\ f.stack[i].kind # "TRY"
                /\ i <= g.context_depth /\ IsCtx(g.stack[i])) =>
                 g.stack[i].kind # "TRY"
        /\ ThrowPending =>
             /\ \A i \in 1..f.context_depth :
                  DeliveredTo(i, "CATCH") =>
                    (f.stack[i].kind = "TRY" /\ g.pc = f.stack[i].end + 1)
             /\ (j > 0 /\ f.stack[j].kind # "TRY") =>
                  /\ ~DeliveredTo(j, "CATCH")
                  /\ IF f.stack[j].kind = "CATCH"
                        /\ f.byte_code_start_p[f.stack[j].end].group = "FINALLY"
                     THEN /\ DeliveredTo(j, "FINALLY_THROW")
                          /\ g.pc = f.stack[j].end + 1
                          /\ g.stack[j - 1] = jcontext.error_value
                     ELSE phase' = "loop" =>
                            (SameTop /\ g.context_depth < j)]_vars

\* TT: the exception thrown in the catch body of the middle statement is in
\* its finally block
C39_Witness ==
  /\ phase = "loop" /\ Top.unit = "TT" /\ Top.pc = 22
  /\ InFinallyBody(Top, Ptr(2), "FINALLY_THROW")
\* TT: the exception thrown in the catch body of the innermost statement,
\* which has no finally block, is in the catch body of the middle one
C39_FromCatchToOuterCatch ==
  /\ phase = "loop" /\ Top.unit = "TT" /\ Top.pc = 16
  /\ InCatchBody(Top, Ptr(2))
  /\ Top.context_depth = 2 * PARSER_TRY_CONTEXT_STACK_ALLOCATION
\* TT: an exception thrown in the finally block is in the catch body of the
\* outermost statement
C39_FromFinallyToOuterCatch ==
  /\ phase = "loop" /\ Top.unit = "TT" /\ Top.pc = 28
  /\ InCatchBody(Top, Ptr(2))
\* TT: the exception is about to be thrown in the finally block
C39_ThrownInFinally ==
  /\ ThrowPending /\ Top.unit = "TT" /\ Top.pc = 25
  /\ VM_CONTEXT_IS_FINALLY(Top.stack[Top.context_depth].kind)
\* TT: the exception thrown in the catch body of the outermost statement
\* has left the function
C39_FromCatchOut ==
  /\ phase = "exec" /\ Top.unit = "TT" /\ Top.pc = 32
  /\ Top.context_depth = 0
  /\ jcontext_has_pending_exception(jcontext)

\* vm_execute is about to return from the run of a code unit that is not
\* the frame of a generator
RunReturns ==
  /\ phase = "exec" /\ Top.call_operation = VM_NO_EXEC_OP
  /\ Top.executable_object = 0

\* the frames are chained in the order they were entered and the top
\* context is the innermost one
ChainIsStack(fs, e) ==
  /\ e.vm_top_context_p = Len(fs)
  /\ \A i \in 1..Len(fs) : fs[i].prev_context_p = i - 1

\* the references to cell c that were held by the cells from d on which
\* were reclaimed between the heaps h and h2
RECURSIVE ReclaimedHoldings(_, _, _, _)
ReclaimedHoldings(h, h2, d, c) ==
  IF d > MaxCells THEN 0
  ELSE (IF h[d].kind # "free" /\ h2[d].kind = "free"
        THEN Count(SavedValues(h[d]), c) ELSE 0)
       + ReclaimedHoldings(h, h2, d + 1, c)

\* C40: the chain of active frames is a stack.  The top context is the
\* innermost frame and the parent of each frame is the one entered before
\* it; entering a run puts one frame on the chain, with the top context of
\* that moment as its parent, and leaves the frames below as they are.  When
\* the run of a code unit that is no generator returns, with a value or with
\* ECMA_VALUE_ERROR, aborted or not, the top context is again the frame that
\* was the top context before the run started, the frames below are as they
\* were, and one reference of every register of the finished frame has been
\* released: a cell loses the references the registers held, and those of
\* the cells reclaimed with them, and nothing else.
C40_FrameChainIsStack ==
  [][/\ ChainIsStack(frames, jcontext)
     /\ ChainIsStack(frames', jcontext')
     /\ Len(frames') > Len(frames) =>
          /\ frames' = Append(frames, frames'[Len(frames')])
          /\ frames'[Len(frames')].prev_context_p = jcontext.vm_top_context_p
     /\ (Len(frames') = Len(frames) /\ Len(frames) > 0) =>
          SubSeq(frames', 1, Len(frames) - 1) = SubSeq(frames, 1, Len(frames) - 1)
     /\ RunReturns =>
          /\ jcontext'.vm_top_context_p = Top.prev_context_p
          /\ frames' = SubSeq(frames, 1, Len(frames) - 1)
          /\ phase' \in {"ret", "done"}
          /\ completion' = completion
          /\ \A c \in Cells :
               heap'[c].kind # "free" =>
                 heap'[c].refs = heap[c].refs - Count(Top.regs, c)
                                 - ReclaimedHoldings(heap, heap', 1, c)
          /\ \A c \in Cells :
               (heap[c].kind # "free" /\ heap'[c].kind = "free") =>
                 heap[c].refs = Count(Top.regs, c)
                                + ReclaimedHoldings(heap, heap', 1, c)]_vars

\* the run of a called function has returned ECMA_VALUE_ERROR into its
\* caller, which is the top context again
C40_Witness ==
  /\ phase = "ret" /\ Len(frames) = 1
  /\ ECMA_IS_VALUE_ERROR(completion)
  /\ jcontext.vm_top_context_p = 1
  /\ jcontext_has_pending_exception(jcontext)
\* the same for a run that was aborted
C40_AbortedRunReturned ==
  /\ phase = "ret" /\ Len(frames) = 1
  /\ ECMA_IS_VALUE_ERROR(completion)
  /\ jcontext.vm_top_context_p = 1
  /\ jcontext_has_pending_abort(jcontext)
\* the same for a run that returns a value
C40_ValueReturned ==
  /\ phase = "ret" /\ Len(frames) = 1
  /\ ~ECMA_IS_VALUE_ERROR(completion)
  /\ jcontext.vm_top_context_p = 1
\* the outermost run has returned with a register that held an object
C40_RegistersReleased ==
  /\ phase = "done" /\ frames = <<>>
  /\ jcontext.vm_top_context_p = 0
  /\ jcontext.stop_last # "none"

====
